---------------------------- MODULE Spec2Model ----------------------------
(***************************************************************************)
(* A model of py-wikijs' client-side response cache                        *)
(* (wikijs/cache/base.py, wikijs/cache/memory.py) and of its token-bucket  *)
(* rate limiter (wikijs/ratelimit.py).                                     *)
(*                                                                         *)
(* Strings are sequences of one-character strings, so that ":".join and    *)
(* str.split(":") are computed, not assumed.  Time is a discrete clock.    *)
(***************************************************************************)
EXTENDS Integers, Sequences, FiniteSets, TLC

(***************************************************************************)
(* Bounds of the model.                                                    *)
(***************************************************************************)
\* largest max_size a cache is constructed with
MaxSize == 2
\* the cache's ttl, in clock ticks
TTL == 1
\* the clock stops advancing here: an entry stored at time 0 has expired
MaxTime == TTL + 1
\* get is not called once hits + misses has reached this
MaxGets == 2
\* largest burst of the RateLimiters constructed
MaxBurst == 2
\* largest timeout acquire is called with, in clock ticks
MaxTimeout == 1
\* the clock of the rate limiter stops advancing here
RlMaxTime == 2

\* the 0.1 seconds of acquire's sleep, in clock ticks: a tick is 0.1 s
SleepCap == 1
TicksPerSecond == 10 * SleepCap
\* the 1.0 of acquire, one token, in the units tokens are counted in: a
\* rate of n units per tick is n / 2 requests per second
OneToken == 20

\* Python's None
None == "None"
\* the values callers store
Values == {"v1", "v2"}

VARIABLES
    \* MemoryCache: self._cache (an OrderedDict, oldest first), self._hits,
    \* self._misses, self.max_size, self.ttl
    cache, hits, misses, max_size, ttl,
    \* time.time()
    now,
    \* the last call made on the cache by a single-threaded caller:
    \* [op, key, ret, before]: key the CacheKey (or the invalidate
    \* arguments), ret what the call returned, before the key strings that
    \* were stored when it was made
    last,
    \* history, for the statements about recency: the key strings set so far
    \* ordered by their last touch (set or successful get, oldest first) and
    \* by their last set, and the stored keys read since their last set
    lru,
    \* history, for the statements about expiry: per key string, <<>> or
    \* <<[at, value, live]>>: when it was last set, to what, and whether no
    \* delete, clear, invalidate_resource or eviction has removed it since
    setlog,
    \* the threads that share the cache: per thread, where it stands in its
    \* call (pc), the call's arguments and local variables, and how its last
    \* call ended (ret, exc)
    th,
    \* RateLimiter: [rate, burst, tokens, last_update, lock]: rate in units
    \* per tick, burst in tokens, tokens in units, lock the thread that
    \* holds self._lock (0: none)
    rl,
    \* the threads that share the limiter: per thread, where it stands in
    \* its call, the call's timeout and locals, and what its last call
    \* returned
    callers,
    \* history: when the bucket was last full (at), whether reset or the
    \* constructor or a refill made it so (by), and how many acquire calls
    \* have returned True since (n)
    grants,
    \* PerEndpointRateLimiter and the threads that share it:
    \* [default_rate, limiters, objs, callers, configured, sets]:
    \* limiters maps an endpoint to <<>> or to <<i>>, the place in objs of
    \* its RateLimiter; callers says per thread where it stands in its call;
    \* configured is history: the rate of the last set_limit that returned
    \* for the endpoint, if any; sets counts the set_limit calls
    pe,
    \* PagesEndpoint, its client and the server behind it:
    \* [cache, server, last]: whether the client has a cache, the content
    \* of each page on the server (None: no such page), and the last call
    \* of the endpoint
    pages,
    \* WikiJSClient: [sent, last]: the number of requests handed to
    \* self._session.request, and the last call of _request: its method
    \* and endpoint, the calls it made on a rate limiter, whether it sent
    \* the request, and the exception it raised ("none": it returned)
    client

cacheVars == <<cache, hits, misses, max_size, ttl>>
history == <<lru, setlog, th, rl, callers, grants, pe, pages, client>>
rlVars == <<rl, callers, grants>>
notLimiter == <<cache, hits, misses, max_size, ttl, last, lru, setlog, th, pe, pages, client>>
vars == <<cache, hits, misses, max_size, ttl, now, last, lru, setlog, th, rl, callers,
          grants, pe, pages, client>>

(***************************************************************************)
(* Strings                                                                 *)
(***************************************************************************)
RECURSIVE Join(_)
\* ":".join(parts)
Join(parts) ==
    IF Len(parts) = 0 THEN <<>>
    ELSE IF Len(parts) = 1 THEN parts[1]
    ELSE parts[1] \o <<":">> \o Join(Tail(parts))

RECURSIVE SplitFrom(_, _, _)
\* s.split(":"), scanning s from position i with the current part cur
SplitFrom(s, i, cur) ==
    IF i > Len(s) THEN <<cur>>
    ELSE IF s[i] = ":" THEN <<cur>> \o SplitFrom(s, i + 1, <<>>)
    ELSE SplitFrom(s, i + 1, Append(cur, s[i]))

Split(s) == SplitFrom(s, 1, <<>>)

(***************************************************************************)
(* CacheKey: a record of resource_type, identifier, operation (strings)    *)
(* and params: <<>> for None, <<s>> for the string s.                      *)
(***************************************************************************)
CacheKey(rt, id, op, params) ==
    [resource_type |-> rt, identifier |-> id, operation |-> op, params |-> params]

\* CacheKey.to_string; str(identifier) of a string is that string, and
\* "if self.params" is false for None and for the empty string
to_string(key) ==
    LET parts == <<key.resource_type, key.identifier, key.operation>>
    IN Join(IF key.params # <<>> /\ key.params[1] # <<>>
            THEN Append(parts, key.params[1])
            ELSE parts)

\* the keys callers use: page 1, page 2 and user 1
Keys ==
    { CacheKey(<<"p">>, <<"1">>, <<"g">>, <<>>),
      CacheKey(<<"p">>, <<"2">>, <<"g">>, <<>>),
      CacheKey(<<"u">>, <<"1">>, <<"g">>, <<>>) }

\* more keys, for the calls of invalidate_resource: another operation with
\* params on page 1, and a user whose identifier is page 2's
MoreKeys ==
    Keys \cup { CacheKey(<<"p">>, <<"1">>, <<"l">>, << <<"x">> >>),
                CacheKey(<<"u">>, <<"2">>, <<"g">>, <<>>) }

\* the arguments invalidate_resource is called with; identifier <<>> is None
ResourceTypes == { <<"p">>, <<"u">> }
Identifiers == { <<"1">>, <<"2">> }

(***************************************************************************)
(* The OrderedDict self._cache: a sequence of [key, value, expires_at,     *)
(* created_at], first item oldest.                                         *)
(***************************************************************************)
KeysOf(c) == { c[i].key : i \in 1..Len(c) }

\* key_str in self._cache
Contains(c, ks) == ks \in KeysOf(c)

IndexOf(c, ks) == CHOOSE i \in 1..Len(c) : c[i].key = ks

\* self._cache[key_str]
Lookup(c, ks) == c[IndexOf(c, ks)]

\* del self._cache[key_str]
Del(c, ks) == LET Keep(e) == e.key # ks IN SelectSeq(c, Keep)

\* a plausible slip: the entry is not moved
MoveToEndMissing(c, ks) == c

\* self._cache.move_to_end(key_str)
MoveToEnd(c, ks) == Append(Del(c, ks), Lookup(c, ks))

\* a plausible slip: popitem() with its default, last=True
PopNewest(c) == SubSeq(c, 1, Len(c) - 1)

\* self._cache.popitem(last=False)
PopOldest(c) == Tail(c)

\* a plausible slip: the ttl is not added to the expiry
EntryWithoutTtl(ks, v, t) ==
    [key |-> ks, value |-> v, expires_at |-> t, created_at |-> t]

\* the item set stores under key_str at time t
Entry(ks, v, t) ==
    [key |-> ks, value |-> v, expires_at |-> t + ttl, created_at |-> t]

(***************************************************************************)
(* MemoryCache, called from one thread: each action is one call.           *)
(***************************************************************************)
\* MemoryCache.__init__
InitCache ==
    /\ cache = <<>>
    /\ hits = 0
    /\ misses = 0
    /\ ttl = TTL

\* what the caller saw of a call
Called(op, key, ret) ==
    [op |-> op, key |-> key, ret |-> ret, before |-> KeysOf(cache)]

\* a plausible slip: the entry dies at its deadline, not after it
ExpiredAtDeadline(e, t) == t >= e.expires_at

\* time.time() > expires_at
Expired(e, t) == t > e.expires_at

\* a plausible slip: a hit renews the entry's expiry (a sliding ttl)
GetRenewsExpiry(k) ==
    LET ks == to_string(k) IN
    /\ hits + misses < MaxGets
    /\ IF ~Contains(cache, ks)
       THEN /\ misses' = misses + 1
            /\ last' = Called("get", k, None)
            /\ UNCHANGED <<cache, hits>>
       ELSE IF Expired(Lookup(cache, ks), now)
       THEN /\ cache' = Del(cache, ks)
            /\ misses' = misses + 1
            /\ last' = Called("get", k, None)
            /\ UNCHANGED hits
       ELSE /\ cache' = Append(Del(cache, ks),
                               [Lookup(cache, ks) EXCEPT
                                  !.expires_at = now + ttl])
            /\ hits' = hits + 1
            /\ last' = Called("get", k, Lookup(cache, ks).value)
            /\ UNCHANGED misses
    /\ UNCHANGED <<max_size, ttl, now>>

Get(k) ==
    LET ks == to_string(k) IN
    /\ hits + misses < MaxGets
    /\ IF ~Contains(cache, ks)
       THEN /\ misses' = misses + 1
            /\ last' = Called("get", k, None)
            /\ UNCHANGED <<cache, hits>>
       ELSE IF Expired(Lookup(cache, ks), now)
       THEN /\ cache' = Del(cache, ks)
            /\ misses' = misses + 1
            /\ last' = Called("get", k, None)
            /\ UNCHANGED hits
       ELSE /\ cache' = MoveToEnd(cache, ks)
            /\ hits' = hits + 1
            /\ last' = Called("get", k, Lookup(cache, ks).value)
            /\ UNCHANGED misses
    /\ UNCHANGED <<max_size, ttl, now>>

\* a plausible slip: the size test lets one entry too many in
EvictIfOverfull(c) == IF Len(c) > max_size THEN PopOldest(c) ELSE c

\* the eviction step of set, on the cache c after the key's own removal
EvictIfFull(c) == IF Len(c) >= max_size THEN PopOldest(c) ELSE c

\* a plausible slip: a key that is stored keeps its entry
SetKeepsOld(k, v) ==
    LET ks == to_string(k) IN
    /\ cache' = IF Contains(cache, ks) THEN cache
                ELSE Append(EvictIfFull(cache), Entry(ks, v, now))
    /\ last' = Called("set", k, None)
    /\ UNCHANGED <<hits, misses, max_size, ttl, now>>

\* a plausible slip: the size is tested before the key's own entry is removed
SetEvictsFirst(k, v) ==
    LET ks == to_string(k)
        c1 == EvictIfFull(cache)
        c2 == IF Contains(c1, ks) THEN Del(c1, ks) ELSE c1
    IN
    /\ cache' = Append(c2, Entry(ks, v, now))
    /\ last' = Called("set", k, None)
    /\ UNCHANGED <<hits, misses, max_size, ttl, now>>

\* MemoryCache.set
Set(k, v) ==
    LET ks == to_string(k)
        c1 == IF Contains(cache, ks) THEN Del(cache, ks) ELSE cache
        c2 == EvictIfFull(c1)
    IN
    /\ cache' = Append(c2, Entry(ks, v, now))
    /\ last' = Called("set", k, None)
    /\ UNCHANGED <<hits, misses, max_size, ttl, now>>

Delete(k) ==
    LET ks == to_string(k) IN
    /\ cache' = IF Contains(cache, ks) THEN Del(cache, ks) ELSE cache
    /\ last' = Called("delete", k, None)
    /\ UNCHANGED <<hits, misses, max_size, ttl, now>>

\* a plausible slip: clear leaves the counters
ClearKeepsCounters ==
    /\ cache' = <<>>
    /\ last' = Called("clear", None, None)
    /\ UNCHANGED <<hits, misses, max_size, ttl, now>>

\* MemoryCache.clear
Clear ==
    /\ cache' = <<>>
    /\ hits' = 0
    /\ misses' = 0
    /\ last' = Called("clear", None, None)
    /\ UNCHANGED <<max_size, ttl, now>>

\* a plausible slip: the identifier is not compared
MatchesTypeOnly(ks, resource_type, identifier) ==
    LET parts == Split(ks) IN
    /\ Len(parts) >= 2
    /\ parts[1] = resource_type

\* whether invalidate_resource(resource_type, identifier) selects key_str
Matches(ks, resource_type, identifier) ==
    LET parts == Split(ks) IN
    /\ Len(parts) >= 2
    /\ parts[1] = resource_type
    /\ ~(identifier # <<>> /\ parts[2] # identifier[1])

\* identifier: <<>> for None, <<s>> for the string s
InvalidateResource(resource_type, identifier) ==
    LET Keep(e) == ~Matches(e.key, resource_type, identifier) IN
    /\ cache' = SelectSeq(cache, Keep)
    /\ last' = Called("invalidate_resource", <<resource_type, identifier>>, None)
    /\ UNCHANGED <<hits, misses, max_size, ttl, now>>

\* a plausible slip: the count returned is that of the entries kept
CleanupExpiredCountsKept ==
    LET Keep(e) == ~Expired(e, now) IN
    /\ cache' = SelectSeq(cache, Keep)
    /\ last' = Called("cleanup_expired", None, Len(SelectSeq(cache, Keep)))
    /\ UNCHANGED <<hits, misses, max_size, ttl, now>>

CleanupExpired ==
    LET Keep(e) == ~Expired(e, now) IN
    /\ cache' = SelectSeq(cache, Keep)
    /\ last' = Called("cleanup_expired", None,
                       Len(cache) - Len(SelectSeq(cache, Keep)))
    /\ UNCHANGED <<hits, misses, max_size, ttl, now>>

\* time passes between two calls
Tick ==
    /\ now < MaxTime
    /\ now' = now + 1
    /\ last' = Called("tick", None, None)
    /\ UNCHANGED cacheVars

KeyStrings == { to_string(k) : k \in MoreKeys }

\* the threads that share one cache
Threads == {1, 2}

\* a thread that is in no call
Idle(ret, exc) ==
    [pc |-> "idle", ks |-> <<>>, value |-> None, entry |-> <<>>, tmp |-> 0,
     args |-> <<>>, cur |-> <<>>, dirty |-> FALSE, todo |-> <<>>,
     ret |-> ret, exc |-> exc]

\* int(requests_per_second), of a rate in units per tick
IntRate(rate) == (rate * TicksPerSecond) \div OneToken

\* RateLimiter.__init__ at time t; burst is <<>> for None, <<b>> for b, and
\* "burst or int(requests_per_second)" takes the rate for None and for 0
RateLimiter(rate, burst, t) ==
    LET b == IF burst # <<>> /\ burst[1] # 0 THEN burst[1] ELSE IntRate(rate) IN
    [rate |-> rate, burst |-> b, tokens |-> b * OneToken, last_update |-> t,
     lock |-> 0]

\* a thread that is in no call of the limiter
RlIdle(ret) ==
    [pc |-> "idle", timeout |-> <<>>, deadline |-> <<>>, need |-> 0,
     since |-> 0, seen |-> <<>>, ret |-> ret, exc |-> "none"]

\* the default limiter, RateLimiter(), used by no thread
NoLimiter ==
    /\ rl = RateLimiter(OneToken, <<>>, 0)
    /\ callers = [t \in Threads |-> RlIdle(None)]
    /\ grants = [at |-> 0, n |-> 0, by |-> "refill"]

\* the endpoint names given to the PerEndpointRateLimiter
Endpoints == {"/special", "/other"}

\* a thread that is in no call of the PerEndpointRateLimiter
PeIdle(ret, exc) ==
    [pc |-> "idle", ep |-> None, rate |-> 0, lim |-> 0, timeout |-> <<>>,
     deadline |-> <<>>, need |-> 0, since |-> 0, ret |-> ret, exc |-> exc]

\* PerEndpointRateLimiter.__init__
PerEndpointRateLimiter(default_rate) ==
    [default_rate |-> default_rate,
     limiters |-> [ep \in Endpoints |-> <<>>],
     objs |-> <<>>,
     callers |-> [t \in Threads |-> PeIdle(None, "none")],
     configured |-> [ep \in Endpoints |-> <<>>],
     sets |-> 0]

\* the page ids the endpoint is called with
PageIds == {1, 12}

\* PagesEndpoint(client), where client.cache is a cache or None, in front
\* of a server with the pages in server; last is the last call made on the
\* endpoint: its page id, what it returned or raised, the number of
\* requests it posted and the calls it made on the cache
PagesEndpoint(has_cache, server) ==
    [cache |-> has_cache, server |-> server,
     last |-> [op |-> "init", id |-> 0, ret |-> <<>>, exc |-> "none",
               posts |-> 0, calls |-> <<>>]]

\* WikiJSClient.__init__: no request made yet
WikiJSClient ==
    [sent |-> 0,
     last |-> [method |-> None, endpoint |-> None, acquires |-> <<>>,
               sent |-> FALSE, exc |-> "none"]]

\* the default PerEndpointRateLimiter, an endpoint and a client, used by no
\* thread
NoEndpoints ==
    /\ pe = PerEndpointRateLimiter(OneToken)
    /\ pages = PagesEndpoint(FALSE, [id \in PageIds |-> None])
    /\ client = WikiJSClient

InitHistory ==
    /\ lru = [touched |-> <<>>, setorder |-> <<>>, read |-> {}]
    /\ setlog = [ks \in KeyStrings |-> <<>>]
    /\ th = [t \in Threads |-> Idle(None, "none")]
    /\ NoLimiter
    /\ NoEndpoints

Init ==
    /\ InitCache
    /\ max_size \in 1..MaxSize
    /\ now = 0
    /\ last = Called("init", None, None)
    /\ InitHistory

\* the identifier argument of invalidate_resource: None, or a string
MaybeIdentifiers == {<<>>} \cup { <<i>> : i \in Identifiers }

Next ==
    \/ \E k \in Keys : Get(k) /\ UNCHANGED history
    \/ \E k \in Keys, v \in Values : Set(k, v) /\ UNCHANGED history
    \/ \E k \in Keys : Delete(k) /\ UNCHANGED history
    \/ Clear /\ UNCHANGED history
    \/ \E rt \in ResourceTypes, id \in MaybeIdentifiers :
          InvalidateResource(rt, id) /\ UNCHANGED history
    \/ CleanupExpired /\ UNCHANGED history
    \/ Tick /\ UNCHANGED history

Spec == Init /\ [][Next]_vars

\* C1: with max_size >= 1 the cache never stores more than max_size entries,
\* and a set of a key that is not stored, on a cache that stores max_size
\* entries, removes exactly the oldest entry (the first of the OrderedDict)
\* and appends the new one.
C1_NeverOverMaxSize ==
    /\ [](max_size >= 1 => Len(cache) <= max_size)
    /\ [][ (/\ last'.op = "set"
            /\ max_size >= 1
            /\ ~Contains(cache, to_string(last'.key))
            /\ Len(cache) = max_size)
           => /\ Len(cache') = max_size
              /\ SubSeq(cache', 1, max_size - 1) = Tail(cache)
              /\ cache'[max_size].key = to_string(last'.key)
              /\ KeysOf(cache) \ KeysOf(cache') = {Head(cache).key} ]_vars

\* a set of a new key has just evicted another key from a full cache
C1_Witness ==
    /\ last.op = "set"
    /\ Cardinality(last.before) = max_size
    /\ to_string(last.key) \notin last.before
    /\ Cardinality(last.before \ KeysOf(cache)) = 1
    /\ Len(cache) = max_size

\* C5: every get adds exactly one to exactly one of hits and misses.  It is
\* a miss, returning None and leaving the key unstored and the other entries
\* as they were, exactly when the key is not stored or now > expires_at;
\* otherwise it is a hit, returning the stored value and moving the entry to
\* the end of the OrderedDict.
C5_GetHitOrMiss ==
    [][ last'.op = "get" =>
          LET ks == to_string(last'.key)
              Other(e) == e.key # ks
              stored == \E i \in 1..Len(cache) : cache[i].key = ks
              entry == cache[CHOOSE i \in 1..Len(cache) : cache[i].key = ks]
              miss == ~stored \/ now > entry.expires_at
          IN /\ \/ hits' = hits + 1 /\ misses' = misses
                \/ hits' = hits /\ misses' = misses + 1
             /\ miss => /\ misses' = misses + 1
                        /\ last'.ret = None
                        /\ cache' = SelectSeq(cache, Other)
             /\ ~miss => /\ hits' = hits + 1
                         /\ last'.ret = entry.value
                         /\ cache' = Append(SelectSeq(cache, Other), entry) ]_vars

\* a get has just hit an entry that was not the newest, and an earlier get
\* missed
C5_Witness ==
    /\ last.op = "get"
    /\ last.ret # None
    /\ hits = 1
    /\ misses = 1
    /\ Len(cache) = 2
    /\ cache[2].key = to_string(last.key)
    /\ cache[2].created_at < cache[1].created_at

\* C7: cleanup_expired removes the entries with now > expires_at and no
\* other, returns the number of entries it removed, and leaves the other
\* entries (value, expiry, order) and the two counters as they were.
C7_CleanupExpired ==
    [][ last'.op = "cleanup_expired" =>
          LET Alive(e) == ~(now > e.expires_at) IN
          /\ cache' = SelectSeq(cache, Alive)
          /\ last'.ret = Len(cache) - Len(cache')
          /\ hits' = hits
          /\ misses' = misses ]_vars

\* cleanup_expired has just removed one entry and kept another
C7_Witness ==
    /\ last.op = "cleanup_expired"
    /\ last.ret = 1
    /\ Len(cache) = 1
    /\ Cardinality(last.before) = 2
    /\ hits + misses > 0

(***************************************************************************)
(* The same cache, filled from the larger key set and invalidated.         *)
(***************************************************************************)
NextInvalidate ==
    \/ \E k \in MoreKeys : Set(k, "v1") /\ UNCHANGED history
    \/ \E rt \in ResourceTypes, id \in MaybeIdentifiers :
          InvalidateResource(rt, id) /\ UNCHANGED history
    \/ Tick /\ UNCHANGED history

\* a cache constructed with room for one entry more
InitInvalidate ==
    /\ InitCache
    /\ max_size = MaxSize + 1
    /\ now = 0
    /\ last = Called("init", None, None)
    /\ InitHistory

SpecInvalidate == InitInvalidate /\ [][NextInvalidate]_vars

\* C6: invalidate_resource(t) removes the entries whose key has t as its
\* resource type, whatever the identifier, operation and params, and
\* invalidate_resource(t, id) those whose key has t as its resource type and
\* id as its identifier; the other entries keep value, expiry and order.
C6_InvalidateResource ==
    [][ last'.op = "invalidate_resource" =>
          LET t == last'.key[1]
              id == last'.key[2]
              KeyOf(ks) == CHOOSE k \in MoreKeys : to_string(k) = ks
              Kept(e) == ~(/\ KeyOf(e.key).resource_type = t
                           /\ id # <<>> => KeyOf(e.key).identifier = id[1])
          IN cache' = SelectSeq(cache, Kept) ]_vars

\* invalidate_resource("p", "1") has just removed both entries of page 1 and
\* kept the entry of user 1
C6_Witness ==
    /\ last.op = "invalidate_resource"
    /\ last.key = << <<"p">>, << <<"1">> >> >>
    /\ last.before = { <<"p", ":", "1", ":", "g">>,
                       <<"p", ":", "1", ":", "l", ":", "x">>,
                       <<"u", ":", "1", ":", "g">> }
    /\ KeysOf(cache) = { <<"u", ":", "1", ":", "g">> }

\* invalidate_resource("p") has just removed the entries of two pages and
\* kept the entry of a user
C6_WitnessAllOfType ==
    /\ last.op = "invalidate_resource"
    /\ last.key = << <<"p">>, <<>> >>
    /\ last.before = { <<"p", ":", "1", ":", "g">>,
                       <<"p", ":", "2", ":", "g">>,
                       <<"u", ":", "2", ":", "g">> }
    /\ KeysOf(cache) = { <<"u", ":", "2", ":", "g">> }

(***************************************************************************)
(* Only set and get, with no time passing (so that nothing expires), and   *)
(* the history of touches kept beside the cache.                           *)
(***************************************************************************)
\* the sequence seq without x
Without(seq, x) == LET Other(y) == y # x IN SelectSeq(seq, Other)

LruGet(k) ==
    LET ks == to_string(k) IN
    /\ Get(k)
    /\ lru' = IF last'.ret = None THEN lru
              ELSE [lru EXCEPT !.touched = Append(Without(@, ks), ks),
                               !.read = @ \cup {ks}]
    /\ UNCHANGED <<setlog, th, rlVars, pe, pages, client>>

LruSet(k, v) ==
    LET ks == to_string(k) IN
    /\ Set(k, v)
    /\ lru' = [touched |-> Append(Without(lru.touched, ks), ks),
               setorder |-> Append(Without(lru.setorder, ks), ks),
               read |-> (lru.read \ {ks}) \cap KeysOf(cache')]
    /\ UNCHANGED <<setlog, th, rlVars, pe, pages, client>>

NextLRU ==
    \/ \E k \in MoreKeys : LruGet(k)
    \/ \E k \in MoreKeys : LruSet(k, "v1")

SpecLRU == Init /\ [][NextLRU]_vars

\* C2: once more than max_size distinct keys have been set, by set and get
\* calls alone and with nothing expired, the stored keys are exactly the
\* max_size keys touched last (by a set or by a successful get).
C2_KeepsMostRecentlyUsed ==
    Len(lru.touched) > max_size =>
        /\ Len(cache) = max_size
        /\ KeysOf(cache) =
             { lru.touched[i] :
                 i \in (Len(lru.touched) - max_size + 1)..Len(lru.touched) }

\* more keys were set than fit, and a stored key was set before a key
\* that is no longer stored: a get kept it
C2_Witness ==
    /\ Len(lru.touched) > max_size
    /\ \E i, j \in 1..Len(lru.setorder) :
          /\ i < j
          /\ lru.setorder[i] \in KeysOf(cache)
          /\ lru.setorder[j] \notin KeysOf(cache)

\* C3: the set of a new key on a full cache evicts the stored key that has
\* gone longest without a get hit or a set; so a key read since its
\* insertion survives as long as another stored key was touched earlier.
C3_EvictsLeastRecentlyTouched ==
    [][ (/\ last'.op = "set"
         /\ ~Contains(cache, to_string(last'.key))
         /\ Len(cache) = max_size)
        => LET stored == KeysOf(cache)
               Pos(x) == CHOOSE i \in 1..Len(lru.touched) : lru.touched[i] = x
               victim == CHOOSE x \in stored : \A y \in stored : Pos(x) <= Pos(y)
           IN /\ KeysOf(cache') = (stored \ {victim}) \cup {to_string(last'.key)}
              /\ \A g \in lru.read \cap stored :
                    (\E y \in stored : Pos(y) < Pos(g)) => g \in KeysOf(cache') ]_vars

\* a set has just evicted a key while a key set before the victim, and read
\* since, is still stored (set a, b; get a; set c evicts b)
C3_Witness ==
    /\ last.op = "set"
    /\ \E v \in last.before \ KeysOf(cache), g \in lru.read \cap KeysOf(cache) :
         \E i, j \in 1..Len(lru.setorder) :
            /\ i < j
            /\ lru.setorder[i] = g
            /\ lru.setorder[j] = v

(***************************************************************************)
(* Every call, with the time and value of each key's last set kept beside  *)
(* the cache.                                                              *)
(***************************************************************************)
\* the CacheKey a key string was made from
KeyOf(ks) == CHOOSE k \in MoreKeys : to_string(k) = ks

\* setlog once the key strings in gone have been removed by a call
Removed(gone) ==
    [y \in KeyStrings |->
        IF y \in gone /\ setlog[y] # <<>>
        THEN << [setlog[y][1] EXCEPT !.live = FALSE] >>
        ELSE setlog[y]]

TtlSet(k, v) ==
    LET ks == to_string(k) IN
    /\ Set(k, v)
    /\ setlog' = [Removed(KeysOf(cache) \ KeysOf(cache')) EXCEPT
                    ![ks] = << [at |-> now, value |-> v, live |-> TRUE] >>]
    /\ UNCHANGED <<lru, th, rlVars, pe, pages, client>>

TtlDelete(k) ==
    /\ Delete(k)
    /\ setlog' = Removed({to_string(k)})
    /\ UNCHANGED <<lru, th, rlVars, pe, pages, client>>

TtlClear ==
    /\ Clear
    /\ setlog' = Removed(KeyStrings)
    /\ UNCHANGED <<lru, th, rlVars, pe, pages, client>>

TtlInvalidateResource(rt, id) ==
    /\ InvalidateResource(rt, id)
    /\ setlog' = Removed({ y \in KeyStrings :
                              /\ KeyOf(y).resource_type = rt
                              /\ id # <<>> => KeyOf(y).identifier = id[1] })
    /\ UNCHANGED <<lru, th, rlVars, pe, pages, client>>

\* the keys of these calls: page 1 and user 1
TtlKeys == { k \in Keys : k.identifier = <<"1">> }

NextTTL ==
    \/ \E k \in TtlKeys : Get(k) /\ UNCHANGED history
    \/ \E k \in TtlKeys, v \in Values : TtlSet(k, v)
    \/ \E k \in TtlKeys : TtlDelete(k)
    \/ TtlClear
    \/ \E rt \in ResourceTypes, id \in MaybeIdentifiers :
          TtlInvalidateResource(rt, id)
    \/ CleanupExpired /\ UNCHANGED history
    \/ Tick /\ UNCHANGED history

SpecTTL == Init /\ [][NextTTL]_vars

\* C4, as claimed: a get issued when ttl or more has elapsed since the key's
\* last set returns None, and a get issued before that, with no delete,
\* clear, invalidation or eviction of the key in between, returns the value
\* of the last set.
C4_AsClaimed ==
    last.op = "get" =>
        LET g == setlog[to_string(last.key)] IN
        g # <<>> =>
            /\ now - g[1].at >= ttl => last.ret = None
            /\ (now - g[1].at < ttl /\ g[1].live) => last.ret = g[1].value

\* C4, amended: a get issued when more than ttl has elapsed since the key's
\* last set returns None, and a get issued when at most ttl has elapsed,
\* with no delete, clear, invalidation or eviction of the key in between,
\* returns the value of the last set.
C4_ExpiresAfterTtl ==
    last.op = "get" =>
        LET g == setlog[to_string(last.key)] IN
        g # <<>> =>
            /\ now - g[1].at > ttl => last.ret = None
            /\ (now - g[1].at <= ttl /\ g[1].live) => last.ret = g[1].value

\* a get issued exactly ttl after the key's set has just returned its value,
\* after an earlier get of that key
C4_Witness ==
    /\ last.op = "get"
    /\ setlog[to_string(last.key)] # <<>>
    /\ now - setlog[to_string(last.key)][1].at = ttl
    /\ last.ret = setlog[to_string(last.key)][1].value
    /\ hits = 2

\* a get issued more than ttl after the key's set has just returned None,
\* with no cleanup_expired in between: the entry was still stored
C4_WitnessExpired ==
    /\ last.op = "get"
    /\ setlog[to_string(last.key)] # <<>>
    /\ now - setlog[to_string(last.key)][1].at > ttl
    /\ setlog[to_string(last.key)][1].live
    /\ to_string(last.key) \in last.before
    /\ last.ret = None

(***************************************************************************)
(* MemoryCache shared by threads.  The class takes no lock, so a call is   *)
(* a sequence of steps, one per statement that reads or writes the shared  *)
(* attributes, and the steps of two calls interleave.  An OrderedDict      *)
(* raises KeyError on a missing key and RuntimeError from an iterator that *)
(* finds the dictionary mutated since the iterator was made.               *)
(***************************************************************************)
\* thread t goes on as r; when t has mutated the OrderedDict, the iterators
\* of the other threads are out of date
Step(t, r, mutated) ==
    th' = [u \in Threads |->
             IF u = t THEN r
             ELSE IF mutated /\ th[u].pc \in {"inv_scan", "cln_scan"}
             THEN [th[u] EXCEPT !.dirty = TRUE]
             ELSE th[u]]

\* iter(self._cache): the first key, if any
FirstKey(c) == IF c = <<>> THEN <<>> ELSE <<c[1].key>>

\* the key after ks in the OrderedDict c, if any
KeyAfter(c, ks) ==
    IF IndexOf(c, ks) = Len(c) THEN <<>> ELSE <<c[IndexOf(c, ks) + 1].key>>

\* a thread enters get, set or delete
MtCallKey(t) ==
    /\ th[t].pc = "idle"
    /\ \E k \in TtlKeys, op \in {"get", "set", "del"} :
          /\ op = "get" => hits + misses < MaxGets
          /\ Step(t, [Idle(None, "none") EXCEPT
                        !.pc = op \o "_test", !.ks = to_string(k),
                        !.value = IF op = "set" THEN "v1" ELSE None], FALSE)
    /\ UNCHANGED <<cacheVars, now, last, lru, setlog, rlVars, pe, pages, client>>

\* a thread enters invalidate_resource or cleanup_expired: the for loop
\* makes its iterator
MtCallScan(t) ==
    /\ th[t].pc = "idle"
    /\ \/ \E id \in {<<>>, << <<"1">> >>} :
             Step(t, [Idle(None, "none") EXCEPT
                        !.pc = "inv_scan", !.args = << <<"p">>, id >>,
                        !.cur = FirstKey(cache)], FALSE)
       \/ Step(t, [Idle(None, "none") EXCEPT
                     !.pc = "cln_scan", !.tmp = now, !.cur = FirstKey(cache)], FALSE)
    /\ UNCHANGED <<cacheVars, now, last, lru, setlog, rlVars, pe, pages, client>>

\* get: if key_str not in self._cache
MtGetTest(t) ==
    /\ th[t].pc = "get_test"
    /\ Step(t, [th[t] EXCEPT !.pc = IF Contains(cache, th[t].ks)
                                    THEN "get_read" ELSE "miss_load"], FALSE)
    /\ UNCHANGED <<cacheVars, now, last, lru, setlog, rlVars, pe, pages, client>>

\* get: entry = self._cache[key_str]; if time.time() > expires_at
MtGetRead(t) ==
    /\ th[t].pc = "get_read"
    /\ IF ~Contains(cache, th[t].ks)
       THEN Step(t, Idle(None, "KeyError"), FALSE)
       ELSE LET e == Lookup(cache, th[t].ks) IN
            Step(t, [th[t] EXCEPT !.entry = <<e>>,
                                  !.pc = IF Expired(e, now)
                                         THEN "get_del" ELSE "get_move"], FALSE)
    /\ UNCHANGED <<cacheVars, now, last, lru, setlog, rlVars, pe, pages, client>>

\* get: del self._cache[key_str], of the expired entry
MtGetDel(t) ==
    /\ th[t].pc = "get_del"
    /\ IF ~Contains(cache, th[t].ks)
       THEN Step(t, Idle(None, "KeyError"), FALSE) /\ UNCHANGED cache
       ELSE /\ cache' = Del(cache, th[t].ks)
            /\ Step(t, [th[t] EXCEPT !.pc = "miss_load"], TRUE)
    /\ UNCHANGED <<hits, misses, max_size, ttl, now, last, lru, setlog, rlVars, pe, pages, client>>

\* get: self._cache.move_to_end(key_str)
MtGetMove(t) ==
    /\ th[t].pc = "get_move"
    /\ IF ~Contains(cache, th[t].ks)
       THEN Step(t, Idle(None, "KeyError"), FALSE) /\ UNCHANGED cache
       ELSE /\ cache' = MoveToEnd(cache, th[t].ks)
            /\ Step(t, [th[t] EXCEPT !.pc = "hit_load"], TRUE)
    /\ UNCHANGED <<hits, misses, max_size, ttl, now, last, lru, setlog, rlVars, pe, pages, client>>

\* get: self._misses += 1 and self._hits += 1 each read the counter, then
\* write it
MtCountLoad(t) ==
    /\ th[t].pc \in {"miss_load", "hit_load"}
    /\ Step(t, [th[t] EXCEPT
                  !.tmp = IF th[t].pc = "miss_load" THEN misses ELSE hits,
                  !.pc = IF th[t].pc = "miss_load" THEN "miss_store" ELSE "hit_store"],
            FALSE)
    /\ UNCHANGED <<cacheVars, now, last, lru, setlog, rlVars, pe, pages, client>>

MtCountStore(t) ==
    /\ th[t].pc \in {"miss_store", "hit_store"}
    /\ IF th[t].pc = "miss_store"
       THEN /\ misses' = th[t].tmp + 1
            /\ Step(t, Idle(None, "none"), FALSE)
            /\ UNCHANGED hits
       ELSE /\ hits' = th[t].tmp + 1
            /\ Step(t, Idle(th[t].entry[1].value, "none"), FALSE)
            /\ UNCHANGED misses
    /\ UNCHANGED <<cache, max_size, ttl, now, last, lru, setlog, rlVars, pe, pages, client>>

\* set: if key_str in self._cache
MtSetTest(t) ==
    /\ th[t].pc = "set_test"
    /\ Step(t, [th[t] EXCEPT !.pc = IF Contains(cache, th[t].ks)
                                    THEN "set_del" ELSE "set_len"], FALSE)
    /\ UNCHANGED <<cacheVars, now, last, lru, setlog, rlVars, pe, pages, client>>

\* set: del self._cache[key_str]
MtSetDel(t) ==
    /\ th[t].pc = "set_del"
    /\ IF ~Contains(cache, th[t].ks)
       THEN Step(t, Idle(None, "KeyError"), FALSE) /\ UNCHANGED cache
       ELSE /\ cache' = Del(cache, th[t].ks)
            /\ Step(t, [th[t] EXCEPT !.pc = "set_len"], TRUE)
    /\ UNCHANGED <<hits, misses, max_size, ttl, now, last, lru, setlog, rlVars, pe, pages, client>>

\* set: if len(self._cache) >= self.max_size
MtSetLen(t) ==
    /\ th[t].pc = "set_len"
    /\ Step(t, [th[t] EXCEPT !.pc = IF Len(cache) >= max_size
                                    THEN "set_pop" ELSE "set_store"], FALSE)
    /\ UNCHANGED <<cacheVars, now, last, lru, setlog, rlVars, pe, pages, client>>

\* set: self._cache.popitem(last=False)
MtSetPop(t) ==
    /\ th[t].pc = "set_pop"
    /\ IF cache = <<>>
       THEN Step(t, Idle(None, "KeyError"), FALSE) /\ UNCHANGED cache
       ELSE /\ cache' = PopOldest(cache)
            /\ Step(t, [th[t] EXCEPT !.pc = "set_store"], TRUE)
    /\ UNCHANGED <<hits, misses, max_size, ttl, now, last, lru, setlog, rlVars, pe, pages, client>>

\* set: self._cache[key_str] = {...}; a key that is stored keeps its place
MtSetStore(t) ==
    /\ th[t].pc = "set_store"
    /\ LET e == Entry(th[t].ks, th[t].value, now) IN
       IF Contains(cache, th[t].ks)
       THEN /\ cache' = [cache EXCEPT ![IndexOf(cache, th[t].ks)] = e]
            /\ Step(t, Idle(None, "none"), FALSE)
       ELSE /\ cache' = Append(cache, e)
            /\ Step(t, Idle(None, "none"), TRUE)
    /\ UNCHANGED <<hits, misses, max_size, ttl, now, last, lru, setlog, rlVars, pe, pages, client>>

\* a plausible slip: delete does not test whether the key is stored
MtDelTestMissing(t) ==
    /\ th[t].pc = "del_test"
    /\ Step(t, [th[t] EXCEPT !.pc = "del_del"], FALSE)
    /\ UNCHANGED <<cacheVars, now, last, lru, setlog, rlVars, pe, pages, client>>

\* delete: if key_str in self._cache
MtDelTest(t) ==
    /\ th[t].pc = "del_test"
    /\ Step(t, IF Contains(cache, th[t].ks)
               THEN [th[t] EXCEPT !.pc = "del_del"]
               ELSE Idle(None, "none"), FALSE)
    /\ UNCHANGED <<cacheVars, now, last, lru, setlog, rlVars, pe, pages, client>>

\* delete: del self._cache[key_str]
MtDelDel(t) ==
    /\ th[t].pc = "del_del"
    /\ IF ~Contains(cache, th[t].ks)
       THEN Step(t, Idle(None, "KeyError"), FALSE) /\ UNCHANGED cache
       ELSE /\ cache' = Del(cache, th[t].ks)
            /\ Step(t, Idle(None, "none"), TRUE)
    /\ UNCHANGED <<hits, misses, max_size, ttl, now, last, lru, setlog, rlVars, pe, pages, client>>

\* invalidate_resource, cleanup_expired: one round of the for loop over
\* self._cache, which ends at the last key, raises when the dictionary was
\* mutated, and else looks at the next key
MtScanNext(t) ==
    /\ th[t].pc \in {"inv_scan", "cln_scan"}
    /\ IF th[t].cur = <<>>
       THEN Step(t, [th[t] EXCEPT !.pc = "todo"], FALSE)
       ELSE IF th[t].dirty
       THEN Step(t, Idle(None, "RuntimeError"), FALSE)
       ELSE LET ks == th[t].cur[1]
                hit == IF th[t].pc = "inv_scan"
                       THEN Matches(ks, th[t].args[1], th[t].args[2])
                       ELSE Expired(Lookup(cache, ks), th[t].tmp)
            IN Step(t, [th[t] EXCEPT
                          !.cur = KeyAfter(cache, ks),
                          !.todo = IF hit THEN Append(@, ks) ELSE @], FALSE)
    /\ UNCHANGED <<cacheVars, now, last, lru, setlog, rlVars, pe, pages, client>>

\* invalidate_resource, cleanup_expired: one round of the loop
\* "for key_str in keys_to_delete: del self._cache[key_str]"
MtScanDel(t) ==
    /\ th[t].pc = "todo"
    /\ IF th[t].todo = <<>>
       THEN Step(t, Idle(None, "none"), FALSE) /\ UNCHANGED cache
       ELSE IF ~Contains(cache, Head(th[t].todo))
       THEN Step(t, Idle(None, "KeyError"), FALSE) /\ UNCHANGED cache
       ELSE /\ cache' = Del(cache, Head(th[t].todo))
            /\ Step(t, [th[t] EXCEPT !.todo = Tail(@)], TRUE)
    /\ UNCHANGED <<hits, misses, max_size, ttl, now, last, lru, setlog, rlVars, pe, pages, client>>

\* time passes
MtTick ==
    /\ now < MaxTime
    /\ now' = now + 1
    /\ UNCHANGED <<cacheVars, last, lru, setlog, th, rlVars, pe, pages, client>>

NextMT ==
    \/ \E t \in Threads :
          \/ MtCallKey(t)
          \/ MtCallScan(t)
          \/ MtGetTest(t)
          \/ MtGetRead(t)
          \/ MtGetDel(t)
          \/ MtGetMove(t)
          \/ MtCountLoad(t)
          \/ MtCountStore(t)
          \/ MtSetTest(t)
          \/ MtSetDel(t)
          \/ MtSetLen(t)
          \/ MtSetPop(t)
          \/ MtSetStore(t)
          \/ MtDelTest(t)
          \/ MtDelDel(t)
          \/ MtScanNext(t)
          \/ MtScanDel(t)
    \/ MtTick

\* a cache constructed with room for one entry
InitMT ==
    /\ InitCache
    /\ max_size = 1
    /\ now = 0
    /\ last = Called("init", None, None)
    /\ InitHistory

SpecMT == InitMT /\ [][NextMT]_vars

\* C8, as far as a state shows it: under every interleaving of calls by two
\* threads no call raises and the cache stores at most max_size entries
\* (both follow from the calls taking effect atomically, one after another).
C8_CallsAreAtomic ==
    /\ \A t \in Threads : th[t].exc = "none"
    /\ Len(cache) <= max_size

(***************************************************************************)
(* RateLimiter shared by threads.  A call is a sequence of steps: taking   *)
(* the lock, the statements under the lock, and what follows its release;  *)
(* the clock may advance between any two steps.                            *)
(***************************************************************************)
\* the rates limiters are constructed with, in units per tick: 0.5, 2 and
\* 10 requests per second
Rates == {1, 4, 20}
\* the burst argument: None, or 0..MaxBurst
Bursts == {<<>>} \cup { <<b>> : b \in 0..MaxBurst }
\* the timeout argument, in ticks: None, or 0..MaxTimeout
Timeouts == {<<>>} \cup { <<d>> : d \in 0..MaxTimeout }

Min(a, b) == IF a <= b THEN a ELSE b

\* a plausible slip: the refill is not capped at burst
RefillUncapped(r, t) == r.tokens + (t - r.last_update) * r.rate

\* min(self.burst, self._tokens + elapsed * self.rate)
Refill(r, t) == Min(r.burst * OneToken, r.tokens + (t - r.last_update) * r.rate)

\* acquire(timeout) is entered: deadline = time.time() + timeout if timeout
\* else None, which is None for the timeout 0 too
RlAcquire(t) ==
    /\ callers[t].pc = "idle"
    /\ \E timeout \in Timeouts :
          callers' = [callers EXCEPT ![t] =
              [RlIdle(None) EXCEPT
                 !.pc = "lock",
                 !.timeout = timeout,
                 !.deadline = IF timeout # <<>> /\ timeout[1] # 0
                              THEN <<now + timeout[1]>> ELSE <<>>]]
    /\ UNCHANGED <<rl, grants>>
    /\ UNCHANGED <<notLimiter, now>>

\* with self._lock, in acquire and in reset
RlLock(t) ==
    /\ callers[t].pc \in {"lock", "reset_lock"}
    /\ rl.lock = 0
    /\ rl' = [rl EXCEPT !.lock = t]
    /\ callers' = [callers EXCEPT
                     ![t].pc = IF callers[t].pc = "lock" THEN "refill" ELSE "reset"]
    /\ UNCHANGED grants
    /\ UNCHANGED <<notLimiter, now>>

\* acquire: now = time.time(); the refill; self._last_update = now
RlRefill(t) ==
    /\ callers[t].pc = "refill"
    /\ rl' = [rl EXCEPT !.tokens = Refill(rl, now), !.last_update = now]
    /\ callers' = [callers EXCEPT ![t].pc = "check"]
    /\ grants' = IF rl'.tokens = rl.burst * OneToken
                 THEN [at |-> now, n |-> 0,
                       by |-> IF rl.tokens = rl.burst * OneToken
                              THEN grants.by ELSE "refill"]
                 ELSE grants
    /\ UNCHANGED <<notLimiter, now>>

\* a plausible slip: the lock is kept while the caller waits
RlCheckKeepsLock(t) ==
    /\ callers[t].pc = "check"
    /\ IF rl.tokens >= OneToken
       THEN /\ rl' = [rl EXCEPT !.tokens = @ - OneToken, !.lock = 0]
            /\ callers' = [callers EXCEPT ![t] = RlIdle("True")]
            /\ grants' = [grants EXCEPT !.n = Min(@ + 1, MaxBurst + 1)]
       ELSE /\ callers' = [callers EXCEPT ![t].pc = "timeout",
                                          ![t].need = OneToken - rl.tokens,
                                          ![t].since = now,
                                          ![t].seen = <<grants>>]
            /\ UNCHANGED <<rl, grants>>
    /\ UNCHANGED <<notLimiter, now>>

\* acquire: if self._tokens >= 1.0, take a token and return True (the count
\* of calls granted since the bucket was full stops at MaxBurst + 1); else
\* compute wait_time, kept as its numerator: wait_time = need / rate, a
\* division that raises when the rate is 0
RlCheck(t) ==
    /\ callers[t].pc = "check"
    /\ IF rl.tokens >= OneToken
       THEN /\ rl' = [rl EXCEPT !.tokens = @ - OneToken, !.lock = 0]
            /\ callers' = [callers EXCEPT ![t] = RlIdle("True")]
            /\ grants' = [grants EXCEPT !.n = Min(@ + 1, MaxBurst + 1)]
       ELSE /\ rl' = [rl EXCEPT !.lock = 0]
            /\ callers' = [callers EXCEPT ![t] =
                  IF rl.rate = 0
                  THEN [RlIdle(None) EXCEPT !.exc = "ZeroDivisionError"]
                  ELSE [@ EXCEPT !.pc = "timeout",
                                 !.need = OneToken - rl.tokens,
                                 !.since = now,
                                 !.seen = <<grants>>]]
            /\ UNCHANGED grants
    /\ UNCHANGED <<notLimiter, now>>

\* acquire: if deadline and time.time() + wait_time > deadline: return
\* False; else time.sleep(min(wait_time, 0.1)) starts
RlTimeout(t) ==
    /\ callers[t].pc = "timeout"
    /\ IF /\ callers[t].deadline # <<>>
          /\ now * rl.rate + callers[t].need > callers[t].deadline[1] * rl.rate
       THEN callers' = [callers EXCEPT ![t] = RlIdle("False")]
       ELSE callers' = [callers EXCEPT ![t].pc = "sleep", ![t].since = now]
    /\ UNCHANGED <<rl, grants>>
    /\ UNCHANGED <<notLimiter, now>>

\* acquire: time.sleep(min(wait_time, 0.1)) returns, and the loop goes round
RlWake(t) ==
    /\ callers[t].pc = "sleep"
    /\ (now - callers[t].since) * rl.rate
          >= Min(callers[t].need, SleepCap * rl.rate)
    /\ callers' = [callers EXCEPT ![t].pc = "lock"]
    /\ UNCHANGED <<rl, grants>>
    /\ UNCHANGED <<notLimiter, now>>

\* reset() is entered
RlResetCall(t) ==
    /\ callers[t].pc = "idle"
    /\ callers' = [callers EXCEPT ![t] = [RlIdle(None) EXCEPT !.pc = "reset_lock"]]
    /\ UNCHANGED <<rl, grants>>
    /\ UNCHANGED <<notLimiter, now>>

\* a plausible slip: reset restarts the clock of the bucket only
RlResetKeepsTokens(t) ==
    /\ callers[t].pc = "reset"
    /\ rl' = [rl EXCEPT !.last_update = now, !.lock = 0]
    /\ callers' = [callers EXCEPT ![t] = RlIdle(None)]
    /\ grants' = [at |-> now, n |-> 0, by |-> "reset"]
    /\ UNCHANGED <<notLimiter, now>>

\* reset: self._tokens = float(self.burst); self._last_update = time.time()
RlReset(t) ==
    /\ callers[t].pc = "reset"
    /\ rl' = [rl EXCEPT !.tokens = rl.burst * OneToken, !.last_update = now,
                        !.lock = 0]
    /\ callers' = [callers EXCEPT ![t] = RlIdle(None)]
    /\ grants' = [at |-> now, n |-> 0, by |-> "reset"]
    /\ UNCHANGED <<notLimiter, now>>

\* time passes
RlTick ==
    /\ now < RlMaxTime
    /\ now' = now + 1
    /\ UNCHANGED rlVars
    /\ UNCHANGED notLimiter

InitRL ==
    /\ InitCache
    /\ max_size = 1
    /\ now = 0
    /\ last = Called("init", None, None)
    /\ lru = [touched |-> <<>>, setorder |-> <<>>, read |-> {}]
    /\ setlog = [ks \in KeyStrings |-> <<>>]
    /\ th = [t \in Threads |-> Idle(None, "none")]
    /\ \E rate \in Rates, burst \in Bursts :
          /\ rl = RateLimiter(rate, burst, 0)
          /\ rl.burst <= MaxBurst
    /\ callers = [t \in Threads |-> RlIdle(None)]
    /\ grants = [at |-> 0, n |-> 0, by |-> "refill"]
    /\ NoEndpoints

NextRL ==
    \/ \E t \in Threads :
          \/ RlAcquire(t)
          \/ RlLock(t)
          \/ RlRefill(t)
          \/ RlCheck(t)
          \/ RlTimeout(t)
          \/ RlWake(t)
          \/ RlResetCall(t)
          \/ RlReset(t)
    \/ RlTick

SpecRL == InitRL /\ [][NextRL]_vars

\* C9: in every state of a shared RateLimiter, between the steps of
\* concurrent acquire and reset calls too, 0 <= tokens <= burst.
C9_TokensWithinBurst ==
    /\ 0 <= rl.tokens
    /\ rl.tokens <= rl.burst * OneToken

\* one thread holds the lock between its refill, which filled the bucket,
\* and its check, while the other thread, which had found the bucket empty,
\* sleeps
C9_Witness ==
    \E t, u \in Threads :
       /\ t # u
       /\ callers[t].pc = "check"
       /\ rl.lock = t
       /\ rl.burst >= 1
       /\ rl.tokens = rl.burst * OneToken
       /\ now > 0
       /\ rl.last_update = now
       /\ callers[u].pc = "sleep"

\* C10, the burst: with no time elapsed since the bucket was full, at most
\* burst acquire calls have returned True and an acquire fails its check
\* only after burst calls have; and more than burst calls have returned
\* True only once 1 / rate has elapsed since the bucket was full.
C10_BurstThenWait ==
    /\ now = grants.at => grants.n <= rl.burst
    /\ \A t \in Threads :
          (/\ callers[t].pc \in {"timeout", "sleep"}
           /\ callers[t].seen[1].at = callers[t].since)
          => callers[t].seen[1].n = rl.burst
    /\ grants.n > rl.burst => (now - grants.at) * rl.rate >= OneToken

\* C10, the timeout: an acquire called with a timeout shorter than the wait
\* it computes does not sleep, it returns False.
C10_ShortTimeoutReturnsFalse ==
    \A t \in Threads :
       callers[t].pc = "sleep" =>
          ~(/\ callers[t].timeout # <<>>
            /\ callers[t].timeout[1] * rl.rate < callers[t].need)

\* C10: the burst and the timeout together.
C10_AsClaimed == C10_BurstThenWait /\ C10_ShortTimeoutReturnsFalse

\* C12: an acquire called with a timeout that finds, after its refill, less
\* than one token and a wait that ends after the deadline (the time of the
\* call plus the timeout; with the timeout 0 that is the time of the call,
\* which every wait exceeds) returns False at its timeout check, with the
\* tokens as they were; and tokens decrease only in a call that returns True.
C12_AsClaimed ==
    [][/\ \A t \in Threads :
            (/\ callers[t].pc = "timeout"
             /\ callers'[t] # callers[t]
             /\ callers[t].timeout # <<>>
             /\ \/ callers[t].timeout[1] = 0
                \/ callers[t].since * rl.rate + callers[t].need
                      > callers[t].deadline[1] * rl.rate)
            => /\ callers'[t].pc = "idle"
               /\ callers'[t].ret = "False"
               /\ rl'.tokens = rl.tokens
       /\ rl'.tokens < rl.tokens
            => \E t \in Threads : /\ callers[t].pc = "check"
                                  /\ callers'[t].ret = "True"]_vars

\* the same, of the timeouts above 0
C12_PositiveTimeout ==
    [][/\ \A t \in Threads :
            (/\ callers[t].pc = "timeout"
             /\ callers'[t] # callers[t]
             /\ callers[t].timeout # <<>>
             /\ callers[t].timeout[1] > 0
             /\ callers[t].since * rl.rate + callers[t].need
                   > callers[t].deadline[1] * rl.rate)
            => /\ callers'[t].pc = "idle"
               /\ callers'[t].ret = "False"
               /\ rl'.tokens = rl.tokens
       /\ rl'.tokens < rl.tokens
            => \E t \in Threads : /\ callers[t].pc = "check"
                                  /\ callers'[t].ret = "True"]_vars

\* C15: a caller that sleeps between two refill checks does not hold the
\* lock, and whoever holds it meanwhile is inside the statements under the
\* lock, which end: the other caller's acquire or reset is not kept waiting
\* by the sleeper.
C15_SleeperHoldsNoLock ==
    \A t \in Threads :
       callers[t].pc = "sleep" =>
          /\ rl.lock # t
          /\ rl.lock # 0 => callers[rl.lock].pc \in {"refill", "check", "reset"}

\* while one caller sleeps, the other has taken the lock, refilled after the
\* sleep began, and returned True
C15_Witness ==
    \E t, u \in Threads :
       /\ t # u
       /\ callers[t].pc = "sleep"
       /\ callers[u].pc = "idle"
       /\ callers[u].ret = "True"
       /\ rl.last_update > callers[t].since
       /\ rl.lock = 0

\* C16: reset stores tokens = burst and last_update = now; and with no time
\* elapsed since a reset, no acquire finds the bucket empty before burst
\* calls have been granted since.
C16_Reset ==
    /\ [][\A t \in Threads :
            (callers[t].pc = "reset" /\ callers'[t].pc = "idle")
            => /\ rl'.tokens = rl.burst * OneToken
               /\ rl'.last_update = now
               /\ rl'.burst = rl.burst
               /\ rl'.rate = rl.rate]_vars
    /\ [](\A t \in Threads :
            (/\ callers[t].pc \in {"timeout", "sleep"}
             /\ callers[t].seen[1].by = "reset"
             /\ callers[t].seen[1].at = callers[t].since)
            => callers[t].seen[1].n = rl.burst)
    /\ []((grants.by = "reset" /\ now = grants.at) => grants.n <= rl.burst)

\* one caller found the bucket empty and sleeps; meanwhile, and with no time
\* elapsed, the other has reset the limiter and then been granted burst calls
C16_Witness ==
    \E t, u \in Threads :
       /\ t # u
       /\ callers[u].pc = "sleep"
       /\ callers[u].since = now
       /\ callers[u].seen[1].by = "refill"
       /\ grants.by = "reset"
       /\ grants.at = now
       /\ rl.burst >= 1
       /\ grants.n = rl.burst
       /\ callers[t].pc = "idle"
       /\ callers[t].ret = "True"

\* limiters of any rate, the rate 0 included
AnyRates == Rates \cup {0}

InitRLAnyRate ==
    /\ InitCache
    /\ max_size = 1
    /\ now = 0
    /\ last = Called("init", None, None)
    /\ lru = [touched |-> <<>>, setorder |-> <<>>, read |-> {}]
    /\ setlog = [ks \in KeyStrings |-> <<>>]
    /\ th = [t \in Threads |-> Idle(None, "none")]
    /\ \E rate \in AnyRates, burst \in Bursts :
          /\ rl = RateLimiter(rate, burst, 0)
          /\ rl.burst <= MaxBurst
    /\ callers = [t \in Threads |-> RlIdle(None)]
    /\ grants = [at |-> 0, n |-> 0, by |-> "refill"]
    /\ NoEndpoints

SpecRLAnyRate == InitRLAnyRate /\ [][NextRL]_vars

\* C14: no call of acquire or reset raises, whatever rate and burst the
\* limiter was constructed with.
C14_NeverRaises ==
    \A t \in Threads : callers[t].exc = "none"

\* the same, of the limiters constructed with a rate above 0
C14_NeverRaisesPositiveRate ==
    rl.rate > 0 => \A t \in Threads : callers[t].exc = "none"

(***************************************************************************)
(* Progress of acquire.  One thread calls acquire, the other calls reset,  *)
(* and time never stops: once the clock has reached RlMaxTime every stored *)
(* time stamp is moved one tick into the past instead, so that a refill    *)
(* sees at most RlMaxTime ticks elapsed.  Each step of a call that has     *)
(* started is eventually taken, and a thread that asks for the lock again  *)
(* and again eventually gets it.                                           *)
(***************************************************************************)
Max(a, b) == IF a >= b THEN a ELSE b

\* the thread that calls acquire, and the thread that calls reset
Acquirer == 1
Resetter == 2

\* a time stamp one tick further in the past
Earlier(stamp) == Max(stamp - 1, 0)

\* time passes
RlAdvance ==
    /\ IF now < RlMaxTime
       THEN /\ now' = now + 1
            /\ UNCHANGED rlVars
       ELSE /\ now' = now
            /\ rl' = [rl EXCEPT !.last_update = Earlier(@)]
            /\ callers' = [t \in Threads |->
                  [callers[t] EXCEPT
                     !.since = Earlier(@),
                     !.deadline = IF @ = <<>> THEN <<>> ELSE <<Earlier(@[1])>>,
                     !.seen = IF @ = <<>> THEN <<>>
                              ELSE <<[@[1] EXCEPT !.at = Earlier(@)]>>]]
            /\ grants' = [grants EXCEPT !.at = Earlier(@)]
    /\ UNCHANGED notLimiter

NextRLFair ==
    \/ RlAcquire(Acquirer)
    \/ \E t \in Threads : RlLock(t)
    \/ RlRefill(Acquirer)
    \/ RlCheck(Acquirer)
    \/ RlTimeout(Acquirer)
    \/ RlWake(Acquirer)
    \/ RlResetCall(Resetter)
    \/ RlReset(Resetter)
    \/ RlAdvance

RlFairness ==
    /\ \A t \in Threads : SF_vars(RlLock(t))
    /\ WF_vars(RlRefill(Acquirer))
    /\ WF_vars(RlCheck(Acquirer))
    /\ WF_vars(RlTimeout(Acquirer))
    /\ WF_vars(RlWake(Acquirer))
    /\ WF_vars(RlReset(Resetter))
    /\ WF_vars(RlAdvance)

SpecRLFair == InitRL /\ [][NextRLFair]_vars /\ RlFairness

\* C11: an acquire call with no timeout, on a limiter of any rate and any
\* burst, given or defaulted, eventually returns True.
C11_AcquireEventuallyTrue ==
    (callers[Acquirer].pc = "lock" /\ callers[Acquirer].timeout = <<>>)
        ~> (callers[Acquirer].ret = "True")

\* the same, of the limiters whose bucket holds at least one token
C11_AcquireEventuallyTrueWithBurst ==
    (callers[Acquirer].pc = "lock" /\ callers[Acquirer].timeout = <<>>
       /\ rl.burst >= 1)
        ~> (callers[Acquirer].ret = "True")

\* C13: an acquire called with a timeout, the timeout 0 included, sleeps
\* only when its wait ends by the deadline, and it returns.
C13_AsClaimed ==
    /\ [][\A t \in Threads :
            (/\ callers[t].pc = "timeout"
             /\ callers'[t].pc = "sleep"
             /\ callers[t].timeout # <<>>)
            => /\ callers[t].timeout[1] > 0
               /\ now * rl.rate + callers[t].need
                     <= callers[t].deadline[1] * rl.rate]_vars
    /\ (callers[Acquirer].pc = "lock" /\ callers[Acquirer].timeout # <<>>)
          ~> (callers[Acquirer].pc = "idle")

\* the same, of the timeouts above 0
C13_PositiveTimeout ==
    /\ [][\A t \in Threads :
            (/\ callers[t].pc = "timeout"
             /\ callers'[t].pc = "sleep"
             /\ callers[t].timeout # <<>>
             /\ callers[t].timeout[1] > 0)
            => now * rl.rate + callers[t].need
                  <= callers[t].deadline[1] * rl.rate]_vars
    /\ (/\ callers[Acquirer].pc = "lock"
        /\ callers[Acquirer].timeout # <<>>
        /\ callers[Acquirer].timeout[1] > 0)
          ~> (callers[Acquirer].pc = "idle")

(***************************************************************************)
(* PerEndpointRateLimiter shared by threads.  The statements of set_limit  *)
(* and of acquire under self._lock are one step each; acquire then calls   *)
(* the acquire of the RateLimiter it found, of which one round of the     *)
(* loop, up to the sleep, is one step.                                     *)
(***************************************************************************)
\* number of set_limit calls made
MaxSetLimits == 1

\* the rates given to set_limit, in units per tick: 0 and 1 request per
\* second; and the default rate: 2 requests per second
PeRates == {0, 2}
PeDefaultRate == 4

\* the timeout argument of acquire(endpoint, timeout): None, or 0.1 s
PeTimeouts == {<<>>, <<SleepCap>>}

\* the clock of the PerEndpointRateLimiter runs for one sleep of an acquire
PeMaxTime == SleepCap

\* a RateLimiter that nothing refers to any more: a replaced limiter is
\* freed once no thread is inside its acquire
Freed == [rate |-> 0, burst |-> 0, tokens |-> 0, last_update |-> 0, lock |-> 0]

Collect(p) ==
    LET Referenced(i) ==
           \/ \E ep \in Endpoints : p.limiters[ep] = <<i>>
           \/ \E t \in Threads : p.callers[t].pc # "idle" /\ p.callers[t].lim = i
    IN [p EXCEPT !.objs = [i \in DOMAIN p.objs |->
                             IF Referenced(i) THEN p.objs[i] ELSE Freed]]

\* a plausible slip: set_limit keeps the limiter an endpoint already has
SetLimitKeepsExisting(ep, rate) ==
    [pe EXCEPT
       !.objs = IF pe.limiters[ep] = <<>>
                THEN Append(@, RateLimiter(rate, <<>>, now)) ELSE @,
       !.limiters[ep] = IF @ = <<>> THEN <<Len(pe.objs) + 1>> ELSE @,
       !.configured[ep] = <<rate>>,
       !.sets = @ + 1]

\* set_limit: self._limiters[endpoint] = RateLimiter(rate)
SetLimit(ep, rate) ==
    [pe EXCEPT
       !.objs = Append(@, RateLimiter(rate, <<>>, now)),
       !.limiters[ep] = <<Len(pe.objs) + 1>>,
       !.configured[ep] = <<rate>>,
       !.sets = @ + 1]

\* set_limit(endpoint, rate)
PeSetLimit(t) ==
    /\ pe.callers[t].pc = "idle"
    /\ pe.sets < MaxSetLimits
    /\ \E ep \in Endpoints, rate \in PeRates :
          pe' = Collect([SetLimit(ep, rate) EXCEPT
                           !.callers[t] = PeIdle(None, "none")])
    /\ UNCHANGED <<cacheVars, now, last, lru, setlog, th, rlVars, pages, client>>

\* a plausible slip: one limiter, the first made, serves every endpoint
LimiterOfShared(ep) == 1

\* the place in objs of self._limiters[endpoint], once acquire has made
\* sure that there is one
LimiterOf(ep) ==
    IF pe.limiters[ep] = <<>> THEN Len(pe.objs) + 1 ELSE pe.limiters[ep][1]

\* a plausible slip: the test "endpoint not in self._limiters" is made
\* outside the lock, so that a caller stores a limiter of its own over the
\* one another caller has just stored
PeAcquireOwnLimiter(t) ==
    /\ pe.callers[t].pc = "idle"
    /\ \E ep \in Endpoints, timeout \in PeTimeouts :
          pe' = [pe EXCEPT
                   !.objs = Append(@, RateLimiter(pe.default_rate, <<>>, now)),
                   !.limiters[ep] = <<Len(pe.objs) + 1>>,
                   !.callers[t] =
                      [PeIdle(None, "none") EXCEPT
                         !.pc = "attempt", !.ep = ep, !.lim = Len(pe.objs) + 1,
                         !.timeout = timeout,
                         !.deadline = IF timeout # <<>> /\ timeout[1] # 0
                                      THEN <<now + timeout[1]>> ELSE <<>>]]
    /\ UNCHANGED <<cacheVars, now, last, lru, setlog, th, rlVars, pages, client>>

\* acquire(endpoint, timeout): if endpoint not in self._limiters, store
\* RateLimiter(self.default_rate); limiter = self._limiters[endpoint]; and
\* limiter.acquire(timeout) is entered: the deadline
PeAcquire(t) ==
    /\ pe.callers[t].pc = "idle"
    /\ \E ep \in Endpoints, timeout \in PeTimeouts :
          pe' = [pe EXCEPT
                   !.objs = IF pe.limiters[ep] = <<>>
                            THEN Append(@, RateLimiter(pe.default_rate, <<>>, now))
                            ELSE @,
                   !.limiters[ep] = IF @ = <<>> THEN <<Len(pe.objs) + 1>> ELSE @,
                   !.callers[t] =
                      [PeIdle(None, "none") EXCEPT
                         !.pc = "attempt", !.ep = ep, !.lim = LimiterOf(ep),
                         !.timeout = timeout,
                         !.deadline = IF timeout # <<>> /\ timeout[1] # 0
                                      THEN <<now + timeout[1]>> ELSE <<>>]]
    /\ UNCHANGED <<cacheVars, now, last, lru, setlog, th, rlVars, pages, client>>

\* limiter.acquire: the statements under the limiter's lock (the refill,
\* and a token taken or the wait computed), the timeout check, and the
\* sleep started
PeAttempt(t) ==
    LET c == pe.callers[t]
        r == pe.objs[c.lim]
        tokens == Refill(r, now)
        need == OneToken - tokens
    IN
    /\ c.pc = "attempt"
    /\ IF tokens >= OneToken
       THEN pe' = Collect([pe EXCEPT
                     !.objs[c.lim] = [r EXCEPT !.tokens = tokens - OneToken,
                                               !.last_update = now],
                     !.callers[t] = PeIdle("True", "none")])
       ELSE pe' = Collect([pe EXCEPT
                     !.objs[c.lim] = [r EXCEPT !.tokens = tokens,
                                               !.last_update = now],
                     !.callers[t] =
                        IF r.rate = 0
                        THEN PeIdle(None, "ZeroDivisionError")
                        ELSE IF /\ c.deadline # <<>>
                                /\ now * r.rate + need > c.deadline[1] * r.rate
                        THEN PeIdle("False", "none")
                        ELSE [c EXCEPT !.pc = "sleep", !.need = need,
                                       !.since = now]])
    /\ UNCHANGED <<cacheVars, now, last, lru, setlog, th, rlVars, pages, client>>

\* limiter.acquire: the sleep returns, and the loop goes round
PeWake(t) ==
    LET c == pe.callers[t]
        r == pe.objs[c.lim]
    IN
    /\ c.pc = "sleep"
    /\ (now - c.since) * r.rate >= Min(c.need, SleepCap * r.rate)
    /\ pe' = [pe EXCEPT !.callers[t].pc = "attempt"]
    /\ UNCHANGED <<cacheVars, now, last, lru, setlog, th, rlVars, pages, client>>

\* time passes
PeTick ==
    /\ now < PeMaxTime
    /\ now' = now + 1
    /\ UNCHANGED <<cacheVars, last, lru, setlog, th, rlVars, pe, pages, client>>

InitPE ==
    /\ InitCache
    /\ max_size = 1
    /\ now = 0
    /\ last = Called("init", None, None)
    /\ lru = [touched |-> <<>>, setorder |-> <<>>, read |-> {}]
    /\ setlog = [ks \in KeyStrings |-> <<>>]
    /\ th = [t \in Threads |-> Idle(None, "none")]
    /\ NoLimiter
    /\ pe = PerEndpointRateLimiter(PeDefaultRate)
    /\ pages = PagesEndpoint(FALSE, [id \in PageIds |-> None])
    /\ client = WikiJSClient

NextPE ==
    \/ \E t \in Threads :
          \/ PeSetLimit(t)
          \/ PeAcquire(t)
          \/ PeAttempt(t)
          \/ PeWake(t)
    \/ PeTick

SpecPE == InitPE /\ [][NextPE]_vars

\* the rate that throttles an endpoint: the rate of its latest set_limit,
\* or default_rate when it was never configured
RateOf(p, ep) ==
    IF p.configured[ep] # <<>> THEN p.configured[ep][1] ELSE p.default_rate

\* C17: an acquire(endpoint) that starts after set_limit(endpoint, r) has
\* returned is throttled by the endpoint's limiter, whose rate is r, and an
\* acquire on an endpoint never configured by one of rate default_rate; the
\* limiter that set_limit stores is a new one with a full bucket, and it
\* takes the place of the limiter the endpoint had.
C17_ConfiguredOrDefaultRate ==
    [][/\ \A t \in Threads :
            (pe.callers[t].pc = "idle" /\ pe'.callers[t].pc = "attempt")
            => LET c == pe'.callers[t] IN
               /\ pe'.limiters[c.ep] = <<c.lim>>
               /\ pe'.objs[c.lim].rate = RateOf(pe, c.ep)
               /\ pe.limiters[c.ep] # <<>> => pe'.limiters = pe.limiters
       /\ pe'.sets # pe.sets
            => \E ep \in Endpoints :
                  LET i == pe'.limiters[ep][1] IN
                  /\ pe'.limiters[ep] # <<>>
                  /\ i > Len(pe.objs)
                  /\ pe'.objs[i].rate = pe'.configured[ep][1]
                  /\ pe'.objs[i].burst = IntRate(pe'.objs[i].rate)
                  /\ pe'.objs[i].tokens = pe'.objs[i].burst * OneToken
                  /\ pe'.objs[i].last_update = now
                  /\ \A other \in Endpoints \ {ep} :
                        /\ pe'.limiters[other] = pe.limiters[other]
                        /\ pe'.configured[other] = pe.configured[other]]_vars

\* an acquire has started on an endpoint whose default limiter, made by an
\* earlier acquire, was replaced by set_limit with another rate
C17_Witness ==
    \E t \in Threads, ep \in Endpoints :
       /\ pe.callers[t].pc = "attempt"
       /\ pe.callers[t].ep = ep
       /\ pe.configured[ep] # <<>>
       /\ pe.configured[ep][1] # pe.default_rate
       /\ pe.limiters[ep] = <<2>>
       /\ pe.callers[t].lim = 2
       /\ pe.objs[2].rate = pe.configured[ep][1]
       /\ Len(pe.objs) = 2
       /\ \A other \in Endpoints \ {ep} : pe.limiters[other] = <<>>

\* C18: a step of an acquire on one endpoint, whether it takes a token,
\* fails or sleeps, leaves the limiter of every other endpoint as it was,
\* its tokens and last_update included; and an attempt on an endpoint whose
\* bucket holds a token returns True, whatever the other buckets hold.
C18_EndpointsIndependent ==
    [][\A t \in Threads :
          (pe'.sets = pe.sets /\ pe'.callers[t] # pe.callers[t])
          => LET a == IF pe.callers[t].pc = "idle"
                      THEN pe'.callers[t].ep ELSE pe.callers[t].ep
             IN
             /\ \A b \in Endpoints \ {a} :
                   /\ pe'.limiters[b] = pe.limiters[b]
                   /\ pe.limiters[b] # <<>>
                        => pe'.objs[pe.limiters[b][1]] = pe.objs[pe.limiters[b][1]]
             /\ (/\ pe.callers[t].pc = "attempt"
                 /\ pe.limiters[a] = <<pe.callers[t].lim>>
                 /\ pe.objs[pe.callers[t].lim].tokens >= OneToken)
                => pe'.callers[t].ret = "True"]_vars

\* one thread has slept since time 0 on an endpoint whose bucket is still
\* short of a token, and at time 1 the other thread's acquire on the other
\* endpoint took a token and returned True
C18_Witness ==
    \E u, t \in Threads, a, b \in Endpoints :
       /\ u # t /\ a # b
       /\ now = 1
       /\ pe.callers[u].pc = "sleep"
       /\ pe.callers[u].ep = a
       /\ pe.callers[u].since = 0
       /\ pe.limiters[a] = <<pe.callers[u].lim>>
       /\ pe.objs[pe.callers[u].lim].last_update = 0
       /\ Refill(pe.objs[pe.callers[u].lim], now) < OneToken
       /\ pe.limiters[b] # <<>>
       /\ pe.objs[pe.limiters[b][1]].last_update = 1
       /\ pe.objs[pe.limiters[b][1]].tokens
             = pe.objs[pe.limiters[b][1]].burst * OneToken - OneToken
       /\ pe.callers[t].pc = "idle"
       /\ pe.callers[t].ret = "True"

(***************************************************************************)
(* PagesEndpoint in front of a MemoryCache and a server, called from one   *)
(* thread: each action is one call of get, create, update or delete, with  *)
(* every call it makes on the cache.  A page is [id, content]; the server  *)
(* maps a page id to its content, None where there is no such page.        *)
(***************************************************************************)
Digits == <<"0", "1", "2", "3", "4", "5", "6", "7", "8", "9">>

RECURSIVE Str(_)
\* str(page_id), of an integer that is not negative
Str(n) ==
    IF n < 10 THEN <<Digits[n + 1]>>
    ELSE Append(Str(n \div 10), Digits[(n % 10) + 1])

\* the resource type "page"
PageType == <<"p", "a", "g", "e">>

\* CacheKey("page", str(page_id), "get")
PageKey(id) == CacheKey(PageType, Str(id), <<"g", "e", "t">>, <<>>)

Page(id, content) == [id |-> id, content |-> content]

\* the page ids the endpoint is called with: those of pages, and one that
\* fails "page_id < 1"
CalledIds == PageIds \cup {0}

\* what self._post gives: the data asked for, a response with "errors", or
\* data that Page(**normalized_data) rejects
Responses == {"ok", "errors", "unparsable"}

\* a plausible slip: the cache is not asked
CachedNever(c, ks, t) == <<>>

\* cache.get(cache_key): the value returned, <<v>> for the value v and <<>>
\* for None
Cached(c, ks, t) ==
    IF Contains(c, ks) /\ ~Expired(Lookup(c, ks), t)
    THEN <<Lookup(c, ks).value>> ELSE <<>>

\* a plausible slip: get leaves the expired entry it finds
AfterGetKeepsExpired(c, ks, t) ==
    IF ~Contains(c, ks) THEN c
    ELSE IF Expired(Lookup(c, ks), t) THEN c
    ELSE MoveToEnd(c, ks)

\* cache.get(cache_key): the OrderedDict it leaves
AfterGet(c, ks, t) ==
    IF ~Contains(c, ks) THEN c
    ELSE IF Expired(Lookup(c, ks), t) THEN Del(c, ks)
    ELSE MoveToEnd(c, ks)

\* a plausible slip: the page fetched is not stored
AfterSetStoresNothing(c, ks, v, t) == c

\* cache.set(cache_key, page): the OrderedDict it leaves
AfterSet(c, ks, v, t) ==
    Append(EvictIfFull(IF Contains(c, ks) THEN Del(c, ks) ELSE c),
           Entry(ks, v, t))

\* a plausible slip: the page's entries stay
AfterInvalidateKeeps(c, id) == c

\* cache.invalidate_resource("page", str(page_id)): the OrderedDict it leaves
AfterInvalidate(c, id) ==
    LET Keep(e) == ~Matches(e.key, PageType, <<Str(id)>>)
    IN SelectSeq(c, Keep)

\* the call's outcome, as the caller sees it: ret is <<v>> for the value v
\* returned, <<>> for None and for a call that raised exc
Returned(op, id, ret, exc, posts, calls) ==
    [op |-> op, id |-> id, ret |-> ret, exc |-> exc, posts |-> posts,
     calls |-> calls]

\* the calls an endpoint call makes on the cache, when there is one
CacheCalls(calls) == IF pages.cache THEN calls ELSE <<>>

\* the call invalidate_resource("page", str(page_id))
Invalidation(id) ==
    CacheCalls(<< <<"invalidate_resource", PageType, <<Str(id)>>>> >>)

\* pages.get(page_id)
PagesGet(id) ==
    LET ks == to_string(PageKey(id))
        cached == IF pages.cache THEN Cached(cache, ks, now) ELSE <<>>
        c1 == IF pages.cache THEN AfterGet(cache, ks, now) ELSE cache
    IN
    IF id < 1
    THEN /\ pages' = [pages EXCEPT
                        !.last = Returned("get", id, <<>>, "ValidationError", 0, <<>>)]
         /\ UNCHANGED <<cacheVars, now, last, lru, setlog, th, rlVars, pe, client>>
    ELSE
    /\ pages.cache => hits + misses < MaxGets
    /\ hits' = IF pages.cache /\ cached # <<>> THEN hits + 1 ELSE hits
    /\ misses' = IF pages.cache /\ cached = <<>> THEN misses + 1 ELSE misses
    /\ IF cached # <<>>
       THEN /\ cache' = c1
            /\ last' = Called("get", PageKey(id), cached[1])
            /\ pages' = [pages EXCEPT
                           !.last = Returned("get", id, cached, "none", 0,
                                             <<"get">>)]
       ELSE \E response \in Responses :
              IF response = "ok" /\ pages.server[id] # None
              THEN LET page == Page(id, pages.server[id]) IN
                   /\ cache' = IF pages.cache
                               THEN AfterSet(c1, ks, page, now) ELSE cache
                   /\ last' = IF pages.cache
                              THEN [Called("set", PageKey(id), None)
                                      EXCEPT !.before = KeysOf(c1)]
                              ELSE last
                   /\ pages' = [pages EXCEPT
                                  !.last = Returned("get", id, <<page>>, "none", 1,
                                             CacheCalls(<<"get", "set">>))]
              ELSE /\ cache' = c1
                   /\ last' = IF pages.cache
                              THEN Called("get", PageKey(id), None) ELSE last
                   /\ pages' = [pages EXCEPT
                                  !.last = Returned("get", id, <<>>, "APIError", 1,
                                             CacheCalls(<<"get">>))]
    /\ UNCHANGED <<max_size, ttl, now, lru, setlog, th, rlVars, pe, client>>

\* pages.create(page_data): the server gives the page an id no page has
PagesCreate(content) ==
    /\ \E response \in Responses :
          IF response = "errors"
          THEN pages' = [pages EXCEPT
                           !.last = Returned("create", 0, <<>>, "APIError", 1, <<>>)]
          ELSE \E id \in PageIds :
                  /\ pages.server[id] = None
                  /\ pages' = [pages EXCEPT
                        !.server[id] = content,
                        !.last = IF response = "ok"
                                 THEN Returned("create", id, <<Page(id, content)>>,
                                               "none", 1, <<>>)
                                 ELSE Returned("create", id, <<>>, "APIError", 1, <<>>)]
    /\ UNCHANGED <<cacheVars, now, last, lru, setlog, th, rlVars, pe, client>>

\* pages.update(page_id, page_data)
PagesUpdate(id, content) ==
    IF id < 1
    THEN /\ pages' = [pages EXCEPT
                        !.last = Returned("update", id, <<>>, "ValidationError", 0, <<>>)]
         /\ UNCHANGED <<cacheVars, now, last, lru, setlog, th, rlVars, pe, client>>
    ELSE
    /\ \E response \in Responses :
          IF response = "errors" \/ pages.server[id] = None
          THEN /\ pages' = [pages EXCEPT
                              !.last = Returned("update", id, <<>>, "APIError", 1,
                                                <<>>)]
               /\ UNCHANGED <<cache, last>>
          ELSE /\ cache' = IF pages.cache
                           THEN AfterInvalidate(cache, id) ELSE cache
               /\ last' = IF pages.cache
                          THEN Called("invalidate_resource",
                                      <<PageType, <<Str(id)>>>>, None)
                          ELSE last
               /\ pages' = [pages EXCEPT
                     !.server[id] = content,
                     !.last = IF response = "ok"
                              THEN Returned("update", id, <<Page(id, content)>>,
                                            "none", 1, Invalidation(id))
                              ELSE Returned("update", id, <<>>, "APIError", 1,
                                            Invalidation(id))]
    /\ UNCHANGED <<hits, misses, max_size, ttl, now, lru, setlog, th, rlVars, pe, client>>

\* a plausible slip: delete invalidates before it looks at the response
PagesDeleteInvalidatesFirst(id) ==
    IF id < 1
    THEN /\ pages' = [pages EXCEPT
                        !.last = Returned("delete", id, <<>>, "ValidationError", 0, <<>>)]
         /\ UNCHANGED <<cacheVars, now, last, lru, setlog, th, rlVars, pe, client>>
    ELSE
    /\ \E response \in Responses \ {"unparsable"} :
          /\ cache' = IF pages.cache THEN AfterInvalidate(cache, id) ELSE cache
          /\ last' = IF pages.cache
                     THEN Called("invalidate_resource",
                                 <<PageType, <<Str(id)>>>>, None)
                     ELSE last
          /\ IF response = "errors" \/ pages.server[id] = None
             THEN pages' = [pages EXCEPT
                              !.last = Returned("delete", id, <<>>, "APIError", 1,
                                                Invalidation(id))]
             ELSE pages' = [pages EXCEPT
                     !.server[id] = None,
                     !.last = Returned("delete", id, <<"True">>, "none", 1,
                                       Invalidation(id))]
    /\ UNCHANGED <<hits, misses, max_size, ttl, now, lru, setlog, th, rlVars, pe, client>>

\* pages.delete(page_id)
PagesDelete(id) ==
    IF id < 1
    THEN /\ pages' = [pages EXCEPT
                        !.last = Returned("delete", id, <<>>, "ValidationError", 0, <<>>)]
         /\ UNCHANGED <<cacheVars, now, last, lru, setlog, th, rlVars, pe, client>>
    ELSE
    /\ \E response \in Responses \ {"unparsable"} :
          IF response = "errors" \/ pages.server[id] = None
          THEN /\ pages' = [pages EXCEPT
                              !.last = Returned("delete", id, <<>>, "APIError", 1,
                                                <<>>)]
               /\ UNCHANGED <<cache, last>>
          ELSE /\ cache' = IF pages.cache
                           THEN AfterInvalidate(cache, id) ELSE cache
               /\ last' = IF pages.cache
                          THEN Called("invalidate_resource",
                                      <<PageType, <<Str(id)>>>>, None)
                          ELSE last
               /\ pages' = [pages EXCEPT
                     !.server[id] = None,
                     !.last = Returned("delete", id, <<"True">>, "none", 1,
                                       Invalidation(id))]
    /\ UNCHANGED <<hits, misses, max_size, ttl, now, lru, setlog, th, rlVars, pe, client>>

\* time.time() moves on
PagesTick ==
    /\ now < MaxTime
    /\ now' = now + 1
    /\ UNCHANGED <<cacheVars, last, lru, setlog, th, rlVars, pe, pages, client>>

\* a client with a MemoryCache, or with none, and a server with any pages
InitPages ==
    /\ InitCache
    /\ max_size \in 1..MaxSize
    /\ now = 0
    /\ last = Called("init", None, None)
    /\ lru = [touched |-> <<>>, setorder |-> <<>>, read |-> {}]
    /\ setlog = [ks \in KeyStrings |-> <<>>]
    /\ th = [t \in Threads |-> Idle(None, "none")]
    /\ NoLimiter
    /\ pe = PerEndpointRateLimiter(OneToken)
    /\ client = WikiJSClient
    /\ \E has_cache \in BOOLEAN, server \in [PageIds -> Values \cup {None}] :
          pages = PagesEndpoint(has_cache, server)

NextPages ==
    \/ \E id \in CalledIds : PagesGet(id)
    \/ \E content \in Values : PagesCreate(content)
    \/ \E id \in CalledIds, content \in Values : PagesUpdate(id, content)
    \/ \E id \in CalledIds : PagesDelete(id)
    \/ PagesTick

SpecPages == InitPages /\ [][NextPages]_vars

\* C19: with a cache configured that holds an entry for the page id, not
\* expired, pages.get(id) returns the cached value and posts no request.
C19_CacheHitSkipsRequest ==
    [][(pages.cache /\ hits' + misses' # hits + misses)
       => LET r == pages'.last
              ks == to_string(PageKey(r.id))
          IN
          (Contains(cache, ks) /\ ~Expired(Lookup(cache, ks), now))
          => /\ r.op = "get"
             /\ r.ret = <<Lookup(cache, ks).value>>
             /\ r.exc = "none"
             /\ r.posts = 0
             /\ r.calls = <<"get">>
             /\ pages'.server = pages.server]_vars

\* a get answered from the cache, at the time the entry it found is at its
\* deadline
C19_Witness ==
    /\ pages.cache
    /\ pages.last.op = "get"
    /\ pages.last.posts = 0
    /\ pages.last.exc = "none"
    /\ pages.last.ret # <<>>
    /\ hits >= 1
    /\ last.op = "get"
    /\ to_string(last.key) \in KeysOf(cache)
    /\ Lookup(cache, to_string(last.key)).expires_at = now

\* whether a call of op that ended as r, from the server pages before,
\* was a mutation that succeeded
Succeeded(r, before, after) == r.exc = "none" \/ after # before

MaxRequests == 2

\* the method and endpoint arguments of _request
Methods == {"GET", "POST", "PUT", "DELETE"}
ClientEndpoints == {"/graphql", "/pages"}

\* what self._session.request does: it raises, or it gives a response of
\* some status; a response that is ok has a body that is no JSON, a body
\* with "errors", or data
Replies ==
    {"Timeout", "ConnectionError", "RequestException",
     "401", "403", "404", "429", "400", "500",
     "200 no JSON", "200 errors", "200 data"}

\* the exception _request raises on a reply: the except clauses of
\* _request, _handle_response, create_api_error and parse_wiki_response
ExcOf(reply) ==
    CASE reply = "Timeout" -> "TimeoutError"
      [] reply = "ConnectionError" -> "ConnectionError"
      [] reply = "RequestException" -> "APIError"
      [] reply = "401" -> "AuthenticationError"
      [] reply = "403" -> "PermissionError"
      [] reply = "404" -> "NotFoundError"
      [] reply = "429" -> "RateLimitError"
      [] reply = "400" -> "ClientError"
      [] reply = "500" -> "ServerError"
      [] reply = "200 no JSON" -> "APIError"
      [] reply = "200 errors" -> "APIError"
      [] OTHER -> "none"

\* _request(method, endpoint): the url and the arguments are built and
\* self._session.request is called; no rate limiter is asked
ClientRequest(method, endpoint) ==
    /\ client.sent < MaxRequests
    /\ \E reply \in Replies :
          client' = [sent |-> client.sent + 1,
                     last |-> [method |-> method, endpoint |-> endpoint,
                               acquires |-> <<>>, sent |-> TRUE,
                               exc |-> ExcOf(reply)]]
    /\ UNCHANGED <<cacheVars, now, last, lru, setlog, th, rlVars, pe, pages>>

InitClient ==
    /\ InitCache
    /\ max_size = 1
    /\ now = 0
    /\ last = Called("init", None, None)
    /\ InitHistory

NextClient == \E method \in Methods, endpoint \in ClientEndpoints :
                 ClientRequest(method, endpoint)

SpecClient == InitClient /\ [][NextClient]_vars

\* C21 as claimed: a call of _request sends its request only after an
\* acquire on a rate limiter that returned True, and a call whose acquire
\* returned False sends nothing and raises RateLimitError.
C21_AsClaimed ==
    [][client' # client
       => LET r == client'.last IN
          /\ r.sent => /\ r.acquires # <<>>
                       /\ r.acquires[Len(r.acquires)] = "True"
          /\ (r.acquires # <<>> /\ r.acquires[Len(r.acquires)] = "False")
             => (~r.sent /\ r.exc = "RateLimitError")]_vars

(***************************************************************************)
(* CacheKey.to_string as the address of a cache entry: a cache of one      *)
(* entry, set and read with keys whose fields are short strings.           *)
(***************************************************************************)
\* the fields of the keys: no resource type and no identifier holds ":";
\* an operation may; params is None, the empty string or a string
KeyOperations == { <<"g">>, <<"g", ":", "x">> }
KeyParams == { <<>>, << <<>> >>, << <<"x">> >> }

KeyPool ==
    { CacheKey(rt, id, op, params) :
         rt \in ResourceTypes, id \in Identifiers,
         op \in KeyOperations, params \in KeyParams }

\* whether a string holds ":"
HasColon(str) == \E i \in 1..Len(str) : str[i] = ":"

InitKeys ==
    /\ InitCache
    /\ max_size = 1
    /\ now = 0
    /\ last = Called("init", None, None)
    /\ InitHistory

NextKeys ==
    \/ \E k \in KeyPool : Get(k) /\ UNCHANGED history
    \/ \E k \in KeyPool, v \in Values : Set(k, v) /\ UNCHANGED history

SpecKeys == InitKeys /\ [][NextKeys]_vars

\* C22 as claimed: of two keys, used in one call and the next, whose
\* resource_type and identifier hold no ":", the to_string results are
\* equal exactly when the keys are equal; and a get that follows a set and
\* finds the entry the set stored was called with the key of the set.
C22_AsClaimed ==
    [][(/\ last.op \in {"set", "get"}
        /\ last'.op \in {"set", "get"}
        /\ ~HasColon(last.key.resource_type) /\ ~HasColon(last.key.identifier)
        /\ ~HasColon(last'.key.resource_type) /\ ~HasColon(last'.key.identifier))
       => /\ (to_string(last.key) = to_string(last'.key)) <=> (last.key = last'.key)
          /\ (last.op = "set" /\ last'.op = "get" /\ last'.ret # None)
             => last'.key = last.key]_vars

\* the same, of keys whose operation holds no ":" either and whose params
\* is not the empty string
C22_PlainFields ==
    [][(/\ last.op \in {"set", "get"}
        /\ last'.op \in {"set", "get"}
        /\ \A k \in {last.key, last'.key} :
              /\ ~HasColon(k.resource_type) /\ ~HasColon(k.identifier)
              /\ ~HasColon(k.operation)
              /\ k.params # << <<>> >>)
       => /\ (to_string(last.key) = to_string(last'.key)) <=> (last.key = last'.key)
          /\ (last.op = "set" /\ last'.op = "get" /\ last'.ret # None)
             => last'.key = last.key]_vars

(***************************************************************************)
(* The counters, the failure semantics and the frame of the calls of a     *)
(* MemoryCache used from one thread.                                       *)
(***************************************************************************)
\* C23: every call other than clear leaves self._hits and self._misses at
\* least what they were, and only get changes them; clear removes every
\* entry and sets both counters to zero.
C23_CountersMonotonic ==
    [][IF last'.op = "clear"
       THEN cache' = <<>> /\ hits' = 0 /\ misses' = 0
       ELSE /\ hits' >= hits
            /\ misses' >= misses
            /\ (hits' # hits \/ misses' # misses) => last'.op = "get"]_vars

\* clear has just emptied a cache that stored two entries
C23_Witness ==
    /\ last.op = "clear"
    /\ Cardinality(last.before) = 2
    /\ cache = <<>>
    /\ hits = 0
    /\ misses = 0

\* the one thread that calls the cache
Single == 1

\* the calls of one thread, statement by statement, so that a statement
\* that finds its key missing raises
NextST ==
    \/ MtCallKey(Single)
    \/ MtCallScan(Single)
    \/ MtGetTest(Single)
    \/ MtGetRead(Single)
    \/ MtGetDel(Single)
    \/ MtGetMove(Single)
    \/ MtCountLoad(Single)
    \/ MtCountStore(Single)
    \/ MtSetTest(Single)
    \/ MtSetDel(Single)
    \/ MtSetLen(Single)
    \/ MtSetPop(Single)
    \/ MtSetStore(Single)
    \/ MtDelTest(Single)
    \/ MtDelDel(Single)
    \/ MtScanNext(Single)
    \/ MtScanDel(Single)
    \/ MtTick

InitST ==
    /\ InitCache
    /\ max_size \in 1..MaxSize
    /\ now = 0
    /\ last = Called("init", None, None)
    /\ InitHistory

SpecST == InitST /\ [][NextST]_vars

\* C24: in one thread no statement of a call raises, whatever became of
\* the key before; and a delete removes the entry of its key, if there is
\* one, and leaves the other entries, their order and the two counters.
C24_NoRaiseDeleteFrame ==
    [][/\ th'[Single].exc = "none"
       /\ (th[Single].pc \in {"del_test", "del_del"} /\ th' # th)
          => LET Other(e) == e.key # th[Single].ks IN
             /\ hits' = hits
             /\ misses' = misses
             /\ cache' \in {cache, SelectSeq(cache, Other)}
             /\ th'[Single].pc = "idle"
                => /\ cache' = SelectSeq(cache, Other)
                   /\ ~Contains(cache', th[Single].ks)]_vars

\* a get has found the entry of its key expired and removed it, and goes
\* on to count a miss, while another entry is stored
C24_Witness ==
    /\ th[Single].pc = "miss_load"
    /\ th[Single].entry # <<>>
    /\ th[Single].exc = "none"
    /\ ~Contains(cache, th[Single].ks)
    /\ Len(cache) = 1

(***************************************************************************)
(* The scenario of a cache with ttl 1 s and max_size 3: thread Single      *)
(* makes the calls of Scenario one after another, th[Single].tmp of them   *)
(* so far; a tick is 0.1 s, and the calls before the sleep take MaxDelay   *)
(* ticks at most between them.                                             *)
(***************************************************************************)
\* ticks that pass in all between the calls before the sleep
MaxDelay == 2

\* ttl=1s and the sleep of 1.1 s, in ticks
ScenarioTtl == TicksPerSecond
ScenarioSleep == TicksPerSecond + SleepCap

ScenarioKey(name) == CacheKey(<<"p">>, <<name>>, <<"g">>, <<>>)

ScenarioCall(op, name, value) == [op |-> op, key |-> ScenarioKey(name), value |-> value]

\* Set(a,1); Set(b,2); Set(c,3); Get(a); Set(d,4); Get(b); Get(a); Get(c);
\* Get(d); sleep 1.1s; Get(a); CleanupExpired()
Scenario ==
    << ScenarioCall("set", "a", "1"), ScenarioCall("set", "b", "2"),
       ScenarioCall("set", "c", "3"), ScenarioCall("get", "a", None),
       ScenarioCall("set", "d", "4"), ScenarioCall("get", "b", None),
       ScenarioCall("get", "a", None), ScenarioCall("get", "c", None),
       ScenarioCall("get", "d", None), ScenarioCall("sleep", "a", None),
       ScenarioCall("get", "a", None),
       ScenarioCall("cleanup_expired", "a", None) >>

\* the number of the sleep among the calls
SleepAt == CHOOSE i \in 1..Len(Scenario) : Scenario[i].op = "sleep"

\* cleanup_expired: the OrderedDict it leaves
AfterCleanup(c, t) == LET Alive(e) == ~Expired(e, t) IN SelectSeq(c, Alive)

\* the next call of the scenario
ScenarioStep ==
    LET n == th[Single].tmp
        call == Scenario[n + 1]
        ks == to_string(call.key)
        hit == Cached(cache, ks, now)
    IN
    /\ n < Len(Scenario)
    /\ th' = [th EXCEPT ![Single].tmp = n + 1]
    /\ CASE call.op = "set" ->
              /\ cache' = AfterSet(cache, ks, call.value, now)
              /\ last' = Called("set", call.key, None)
              /\ UNCHANGED <<hits, misses, now>>
         [] call.op = "get" ->
              /\ cache' = AfterGet(cache, ks, now)
              /\ hits' = IF hit # <<>> THEN hits + 1 ELSE hits
              /\ misses' = IF hit = <<>> THEN misses + 1 ELSE misses
              /\ last' = Called("get", call.key, IF hit # <<>> THEN hit[1] ELSE None)
              /\ UNCHANGED now
         [] call.op = "sleep" ->
              /\ now' = now + ScenarioSleep
              /\ last' = Called("sleep", None, None)
              /\ UNCHANGED <<cache, hits, misses>>
         [] OTHER ->
              /\ cache' = AfterCleanup(cache, now)
              /\ last' = Called("cleanup_expired", None,
                                Len(cache) - Len(AfterCleanup(cache, now)))
              /\ UNCHANGED <<hits, misses, now>>
    /\ UNCHANGED <<max_size, ttl, lru, setlog, rlVars, pe, pages, client>>

\* the calls before the sleep take time
ScenarioTick ==
    /\ th[Single].tmp < SleepAt - 1
    /\ now < MaxDelay
    /\ now' = now + 1
    /\ UNCHANGED <<cacheVars, last, lru, setlog, th, rlVars, pe, pages, client>>

\* MemoryCache(ttl=1, max_size=3)
InitScenario ==
    /\ cache = <<>>
    /\ hits = 0
    /\ misses = 0
    /\ ttl = ScenarioTtl
    /\ max_size = 3
    /\ now = 0
    /\ last = Called("init", None, None)
    /\ InitHistory

NextScenario == ScenarioStep \/ ScenarioTick

SpecScenario == InitScenario /\ [][NextScenario]_vars

\* the number of entries get_stats reports: len(self._cache)
current_size == Len(cache)

\* C25 as claimed: after the sleep Get(a) returns None, the cleanup_expired
\* that follows returns 3, and current_size is then 0.
C25_AsClaimed ==
    /\ th[Single].tmp = SleepAt + 1 => (last.op = "get" /\ last.ret = None)
    /\ th[Single].tmp = SleepAt + 2
          => (last.op = "cleanup_expired" /\ last.ret = 3 /\ current_size = 0)

\* C25: after the sleep Get(a) returns None and removes the entry of a, so
\* the cleanup_expired that follows finds c and d and returns 2, and
\* current_size is then 0; before the sleep Get(b) returned None and the
\* gets of a, c and d returned 1, 3 and 4.
C25_CleanupReturnsTwo ==
    /\ th[Single].tmp = 6 => last.ret = None
    /\ th[Single].tmp = 7 => last.ret = "1"
    /\ th[Single].tmp = 8 => last.ret = "3"
    /\ th[Single].tmp = 9 => (last.ret = "4" /\ current_size = 3)
    /\ th[Single].tmp = SleepAt + 1
          => (last.op = "get" /\ last.ret = None /\ current_size = 2)
    /\ th[Single].tmp = SleepAt + 2
          => (last.op = "cleanup_expired" /\ last.ret = 2 /\ current_size = 0)

\* the scenario has run to its end, with time passing between its calls
C25_Witness ==
    /\ th[Single].tmp = Len(Scenario)
    /\ last.op = "cleanup_expired"
    /\ now = MaxDelay + ScenarioSleep
    /\ hits = 4
    /\ misses = 2



(***************************************************************************)
(* Every call, with each key's last set kept beside the cache in setlog:   *)
(* per key string <<>> or <<[at, value, again, live]>>: when it was last   *)
(* set and to what, whether that set replaced a stored entry of another    *)
(* value, and whether no delete, clear, invalidate_resource or eviction    *)
(* has removed the entry since.                                            *)
(***************************************************************************)
\* setlog once a call has removed the key strings in gone
SgMark(gone) ==
    [y \in KeyStrings |->
        IF y \in gone /\ setlog[y] # <<>>
        THEN << [setlog[y][1] EXCEPT !.live = FALSE] >>
        ELSE setlog[y]]

SgSet(k, v) ==
    LET ks == to_string(k) IN
    /\ Set(k, v)
    /\ setlog' = [SgMark(KeysOf(cache) \ KeysOf(cache')) EXCEPT
                    ![ks] = << [at |-> now, value |-> v,
                                again |-> /\ Contains(cache, ks)
                                          /\ Lookup(cache, ks).value # v,
                                live |-> TRUE] >>]
    /\ UNCHANGED <<lru, th, rlVars, pe, pages, client>>

SgDelete(k) ==
    /\ Delete(k)
    /\ setlog' = SgMark(KeysOf(cache) \ KeysOf(cache'))
    /\ UNCHANGED <<lru, th, rlVars, pe, pages, client>>

SgClear ==
    /\ Clear
    /\ setlog' = SgMark(KeysOf(cache))
    /\ UNCHANGED <<lru, th, rlVars, pe, pages, client>>

SgInvalidateResource(rt, id) ==
    /\ InvalidateResource(rt, id)
    /\ setlog' = SgMark(KeysOf(cache) \ KeysOf(cache'))
    /\ UNCHANGED <<lru, th, rlVars, pe, pages, client>>

\* the ttl of test_ttl_expiration's cache, in clock ticks
ShortTtl == 1

\* a cache that evicts on every set of another key, or one that holds every
\* key callers use
InitSetGet ==
    /\ cache = <<>>
    /\ hits = 0
    /\ misses = 0
    /\ ttl = ShortTtl
    /\ max_size \in {1, Cardinality(TtlKeys)}
    /\ now = 0
    /\ last = Called("init", None, None)
    /\ InitHistory

\* time passes between two calls, until an entry stored at time 0 has expired
SgTick ==
    /\ now <= ttl
    /\ now' = now + 1
    /\ last' = Called("tick", None, None)
    /\ UNCHANGED cacheVars
    /\ UNCHANGED history

NextSetGet ==
    \/ \E k \in TtlKeys : Get(k) /\ UNCHANGED history
    \/ \E k \in TtlKeys, v \in Values : SgSet(k, v)
    \/ \E k \in TtlKeys : SgDelete(k)
    \/ SgClear
    \/ \E rt \in ResourceTypes, id \in {<<>>, << <<"1">> >>} :
          SgInvalidateResource(rt, id)
    \/ CleanupExpired /\ UNCHANGED history
    \/ SgTick

SpecSetGet == InitSetGet /\ [][NextSetGet]_vars

\* no key string has two entries
SingleEntryPerKey ==
    \A i, j \in 1..Len(cache) : cache[i].key = cache[j].key => i = j

\* C26: a get(k) issued before ttl has elapsed since the last set(k, v),
\* with no delete, clear, invalidate_resource or eviction that removed k's
\* entry since, returns v, the value of the latest set; after a set(k, v)
\* the cache holds v under k, in a single entry.
C26_SetThenGet ==
    /\ SingleEntryPerKey
    /\ last.op = "get" =>
          LET g == setlog[to_string(last.key)] IN
          (g # <<>> /\ now - g[1].at < ttl /\ g[1].live)
          => last.ret = g[1].value
    /\ last.op = "set" =>
          /\ Contains(cache, to_string(last.key))
          /\ Lookup(cache, to_string(last.key)).value
                = setlog[to_string(last.key)][1].value

\* a get has just returned the value of the second set of its key, which
\* replaced another value, while another key is stored too
C26_Witness ==
    /\ last.op = "get"
    /\ setlog[to_string(last.key)] # <<>>
    /\ setlog[to_string(last.key)][1].again
    /\ last.ret = setlog[to_string(last.key)][1].value
    /\ Len(cache) = 2

(***************************************************************************)
(* get_stats.  The caller keeps its own tally beside the cache, in         *)
(* th[Single].args: <<h, m>>, the gets that returned a value and the gets  *)
(* that returned None since the cache was constructed or last cleared.     *)
(***************************************************************************)
\* f"{x:.2f}" of the fraction num / den >= 0, as the number of hundredths:
\* the nearest one, and the even one of two equally near
RoundHundredths(num, den) ==
    LET q == (100 * num) \div den
        r == (100 * num) % den
    IN  IF 2 * r > den \/ (2 * r = den /\ q % 2 = 1) THEN q + 1 ELSE q

\* f"{x:.2f}%" of a number of hundredths
FormatPercent(h) ==
    Str(h \div 100) \o <<".">> \o <<Digits[((h \div 10) % 10) + 1]>>
                    \o <<Digits[(h % 10) + 1]>> \o <<"%">>

\* a plausible slip: the hit rate is taken over the hits alone
get_statsOverHits ==
    LET total_requests == hits
        hit_rate == IF total_requests > 0
                    THEN RoundHundredths(hits * 100, total_requests)
                    ELSE 0
    IN  [ttl |-> ttl, max_size |-> max_size, current_size |-> Len(cache),
         hits |-> hits, misses |-> misses,
         hit_rate |-> FormatPercent(hit_rate),
         total_requests |-> total_requests]

\* MemoryCache.get_stats
get_stats ==
    LET total_requests == hits + misses
        hit_rate == IF total_requests > 0
                    THEN RoundHundredths(hits * 100, total_requests)
                    ELSE 0
    IN  [ttl |-> ttl, max_size |-> max_size, current_size |-> Len(cache),
         hits |-> hits, misses |-> misses,
         hit_rate |-> FormatPercent(hit_rate),
         total_requests |-> total_requests]

GetStats ==
    /\ last' = Called("get_stats", None, get_stats)
    /\ UNCHANGED <<cacheVars, now>>

Tally == th[Single].args

StGet(k) ==
    /\ Get(k)
    /\ th' = [th EXCEPT ![Single].args =
                IF last'.ret = None THEN <<@[1], @[2] + 1>>
                                    ELSE <<@[1] + 1, @[2]>>]
    /\ UNCHANGED <<lru, setlog, rlVars, pe, pages, client>>

StClear ==
    /\ Clear
    /\ th' = [th EXCEPT ![Single].args = <<0, 0>>]
    /\ UNCHANGED <<lru, setlog, rlVars, pe, pages, client>>

InitStats ==
    /\ InitCache
    /\ max_size \in 1..MaxSize
    /\ now = 0
    /\ last = Called("init", None, None)
    /\ lru = [touched |-> <<>>, setorder |-> <<>>, read |-> {}]
    /\ setlog = [ks \in KeyStrings |-> <<>>]
    /\ th = [t \in Threads |-> [Idle(None, "none") EXCEPT !.args = <<0, 0>>]]
    /\ NoLimiter
    /\ NoEndpoints

NextStats ==
    \/ \E k \in TtlKeys : StGet(k)
    \/ \E k \in TtlKeys, v \in Values : Set(k, v) /\ UNCHANGED history
    \/ \E k \in TtlKeys : Delete(k) /\ UNCHANGED history
    \/ StClear
    \/ CleanupExpired /\ UNCHANGED history
    \/ GetStats /\ UNCHANGED history
    \/ Tick /\ UNCHANGED history

SpecStats == InitStats /\ [][NextStats]_vars

\* the number a string of digits, "." and "%" shows once "." and "%" are
\* taken out: the hundredths of a percentage printed with two decimals
RECURSIVE Hundredths(_)
Hundredths(str) ==
    IF str = <<>> THEN 0
    ELSE LET c == str[Len(str)]
             rest == SubSeq(str, 1, Len(str) - 1)
             d == CHOOSE i \in 0..9 : Digits[i + 1] = c
         IN  IF c \in {".", "%"} THEN Hundredths(rest)
             ELSE 10 * Hundredths(rest) + d

\* a string is a percentage with two decimals
IsPercent(str) ==
    /\ Len(str) >= 5
    /\ str[Len(str)] = "%"
    /\ str[Len(str) - 3] = "."
    /\ \A i \in (1..Len(str)) \ {Len(str), Len(str) - 3} :
          \E d \in 1..10 : Digits[d] = str[i]

\* C27: what get_stats returns has total_requests = hits + misses and
\* current_size = the number of entries stored, where hits and misses are
\* the numbers of gets, since construction or the last clear, that returned
\* a value and that returned None; its hit rate is 0 when there was no get,
\* and else hits / (hits + misses) as a percentage (printed with two
\* decimals, so within half a hundredth of it).
C27_GetStats ==
    last.op = "get_stats" =>
        LET s == last.ret
            p == Hundredths(s.hit_rate)
        IN  /\ s.hits = Tally[1]
            /\ s.misses = Tally[2]
            /\ s.total_requests = s.hits + s.misses
            /\ s.current_size = Cardinality(KeysOf(cache))
            /\ s.current_size = Len(cache)
            /\ IsPercent(s.hit_rate)
            /\ s.total_requests = 0 => p = 0
            /\ s.total_requests > 0 =>
                  LET d == p * s.total_requests - 10000 * s.hits IN
                  /\ 2 * d <= s.total_requests
                  /\ 2 * d >= 0 - s.total_requests

\* get_stats was called after one hit and one miss, with one entry stored:
\* the hit rate is 50.00%
C27_Witness ==
    /\ last.op = "get_stats"
    /\ last.ret.hits = 1
    /\ last.ret.misses = 1
    /\ last.ret.current_size = 1
    /\ last.ret.hit_rate = <<"5", "0", ".", "0", "0", "%">>

(***************************************************************************)
(* What a get that returns a value changes, and what changes an expiry.    *)
(***************************************************************************)
\* the entries of the cache c, in any order
EntriesOf(c) == { c[i] : i \in 1..Len(c) }

\* the entries of the cache c under other keys than ks, in their order
Others(c, ks) == LET Other(e) == e.key # ks IN SelectSeq(c, Other)

\* a call that returned a value has just been made: the entries (their
\* values and expires_at included) are those of before, the other keys'
\* entries keep their order, the key's entry is the newest, and of the
\* counters and settings only hits has changed, by one
GetChangesRecencyAndHits ==
    (last'.op = "get" /\ last'.ret # None) =>
        LET ks == to_string(last'.key) IN
        /\ EntriesOf(cache') = EntriesOf(cache)
        /\ Len(cache') = Len(cache)
        /\ Others(cache', ks) = Others(cache, ks)
        /\ cache'[Len(cache')].key = ks
        /\ hits' = hits + 1
        /\ UNCHANGED <<misses, max_size, ttl, now>>

\* an entry's expires_at differs after a call only when the call was a set
\* of its key, and is then now + ttl
OnlySetResetsExpiry ==
    \A i \in 1..Len(cache), j \in 1..Len(cache') :
        (cache[i].key = cache'[j].key
            /\ cache[i].expires_at # cache'[j].expires_at)
        => /\ last'.op = "set"
           /\ to_string(last'.key) = cache[i].key
           /\ cache'[j].expires_at = now + ttl

\* every stored entry expires ttl after its key's last set
LifetimeFromLastSet ==
    \A i \in 1..Len(cache) :
        /\ setlog[cache[i].key] # <<>>
        /\ cache[i].expires_at = setlog[cache[i].key][1].at + ttl

\* C28: a get that returns a value changes only the entry's place in the
\* recency order and the hit counter; it leaves expires_at as it was, every
\* stored entry expires ttl after its key's last set however often it was
\* read, and only a set of the key changes its expires_at.
C28_GetKeepsExpiry ==
    /\ []LifetimeFromLastSet
    /\ [][GetChangesRecencyAndHits /\ OnlySetResetsExpiry]_vars

\* the second get that returned a value has just been made, after time has
\* passed since its key's set and with another key stored: the entry's
\* expiry is still that of its set
C28_Witness ==
    /\ last.op = "get"
    /\ last.ret # None
    /\ hits = 2
    /\ Len(cache) = 2
    /\ setlog[to_string(last.key)][1].at < now
    /\ Lookup(cache, to_string(last.key)).expires_at
          = setlog[to_string(last.key)][1].at + ttl

\* C29: a set of a key that is stored leaves the set of stored keys as it
\* was, even when the cache holds max_size entries: the entries of the other
\* keys and their order are unchanged, the key's entry is the newest, holds
\* the value of the call and expires at now + ttl.
C29_SetOfStoredKey ==
    [][ (last'.op = "set" /\ to_string(last'.key) \in KeysOf(cache)) =>
            LET ks == to_string(last'.key) IN
            /\ KeysOf(cache') = KeysOf(cache)
            /\ Len(cache') = Len(cache)
            /\ Others(cache', ks) = Others(cache, ks)
            /\ cache'[Len(cache')].key = ks
            /\ cache'[Len(cache')].value = setlog'[ks][1].value
            /\ cache'[Len(cache')].expires_at = now + ttl
            /\ UNCHANGED <<hits, misses, max_size, ttl, now>> ]_vars

\* a set has just replaced the value of a stored key in a cache that held
\* max_size entries: the other key's entry, stored at time 0, is still
\* there, and the key's entry expires ttl after this later set
C29_Witness ==
    /\ last.op = "set"
    /\ setlog[to_string(last.key)][1].again
    /\ Cardinality(last.before) = max_size
    /\ max_size = 2
    /\ Len(cache) = 2
    /\ now > 0
    /\ cache[1].created_at = 0
    /\ cache[2].key = to_string(last.key)
    /\ cache[2].expires_at = now + ttl

(***************************************************************************)
(* PagesEndpoint called from several threads through clients that share    *)
(* one cache: a call is its requests and its cache calls, one per step,    *)
(* and steps of different threads interleave.  Each call on the cache is   *)
(* one step here, as it would be under a lock.  th says per thread where   *)
(* it stands (pc), the page id of its call (tmp), the page it fetched or   *)
(* the content it sent (entry) and the response it got (value);            *)
(* pages.server is what the server holds.                                  *)
(***************************************************************************)
\* the thread t has returned from its call
PmReturn(t) ==
    [th EXCEPT ![t].pc = "idle", ![t].tmp = 0, ![t].entry = <<>>,
               ![t].value = None]

\* get: cache.get(cache_key), and the return of a cached page
PmGetCached(t, id) ==
    LET ks == to_string(PageKey(id))
        cached == Cached(cache, ks, now)
    IN
    /\ th[t].pc = "idle"
    /\ hits + misses < MaxGets
    /\ cache' = AfterGet(cache, ks, now)
    /\ hits' = IF cached # <<>> THEN hits + 1 ELSE hits
    /\ misses' = IF cached = <<>> THEN misses + 1 ELSE misses
    /\ last' = Called("get", PageKey(id),
                      IF cached # <<>> THEN cached[1] ELSE None)
    /\ IF cached # <<>>
       THEN /\ th' = PmReturn(t)
            /\ pages' = [pages EXCEPT
                           !.last = Returned("get", id, cached, "none", 0,
                                             <<"get">>)]
       ELSE /\ th' = [th EXCEPT ![t].pc = "get_post", ![t].tmp = id]
            /\ UNCHANGED pages
    /\ UNCHANGED <<max_size, ttl, now, lru, setlog, rlVars, pe, client>>

\* get: self._post, and what is raised on a response that holds no page
PmGetPost(t) ==
    LET id == th[t].tmp IN
    /\ th[t].pc = "get_post"
    /\ \E response \in Responses :
          IF response = "ok" /\ pages.server[id] # None
          THEN /\ th' = [th EXCEPT ![t].pc = "get_set",
                           ![t].entry = <<Page(id, pages.server[id])>>]
               /\ UNCHANGED pages
          ELSE /\ th' = PmReturn(t)
               /\ pages' = [pages EXCEPT
                              !.last = Returned("get", id, <<>>, "APIError", 1,
                                                <<"get">>)]
    /\ UNCHANGED <<cacheVars, now, last, lru, setlog, rlVars, pe, client>>

\* get: cache.set(cache_key, page), and the return of the page
PmGetSet(t) ==
    LET id == th[t].tmp
        ks == to_string(PageKey(id))
        page == th[t].entry[1]
    IN
    /\ th[t].pc = "get_set"
    /\ cache' = AfterSet(cache, ks, page, now)
    /\ last' = Called("set", PageKey(id), None)
    /\ th' = PmReturn(t)
    /\ pages' = [pages EXCEPT
                   !.last = Returned("get", id, <<page>>, "none", 1,
                                     <<"get", "set">>)]
    /\ UNCHANGED <<hits, misses, max_size, ttl, now, lru, setlog, rlVars, pe,
                   client>>

\* update and delete: self._post, and what is raised on a response with
\* errors; content is <<v>> for an update to v and <<>> for a delete, whose
\* response is not parsed
PmMutatePost(t, id, content) ==
    /\ th[t].pc = "idle"
    /\ \E response \in IF content = <<>> THEN Responses \ {"unparsable"}
                       ELSE Responses :
          IF response = "errors" \/ pages.server[id] = None
          THEN /\ pages' = [pages EXCEPT
                     !.last = Returned(IF content = <<>> THEN "delete"
                                       ELSE "update",
                                       id, <<>>, "APIError", 1, <<>>)]
               /\ UNCHANGED th
          ELSE /\ pages' = [pages EXCEPT
                     !.server[id] = IF content = <<>> THEN None
                                    ELSE content[1]]
               /\ th' = [th EXCEPT ![t].pc = "invalidate", ![t].tmp = id,
                                   ![t].entry = content,
                                   ![t].value = response]
    /\ UNCHANGED <<cacheVars, now, last, lru, setlog, rlVars, pe, client>>

\* update and delete: cache.invalidate_resource("page", str(page_id)), and
\* the return
PmInvalidate(t) ==
    LET id == th[t].tmp
        content == th[t].entry
    IN
    /\ th[t].pc = "invalidate"
    /\ cache' = AfterInvalidate(cache, id)
    /\ last' = Called("invalidate_resource", <<PageType, <<Str(id)>>>>, None)
    /\ th' = PmReturn(t)
    /\ pages' = [pages EXCEPT
                   !.last = IF content = <<>>
                            THEN Returned("delete", id, <<"True">>, "none", 1,
                                          Invalidation(id))
                            ELSE IF th[t].value = "ok"
                            THEN Returned("update", id,
                                          <<Page(id, content[1])>>, "none", 1,
                                          Invalidation(id))
                            ELSE Returned("update", id, <<>>, "APIError", 1,
                                          Invalidation(id))]
    /\ UNCHANGED <<hits, misses, max_size, ttl, now, lru, setlog, rlVars, pe,
                   client>>

\* the contents a mutation asks for: <<v>> for update, <<>> for delete
Mutations == {<<>>} \cup { <<v>> : v \in Values }

\* clients with one MemoryCache between them, and a server with any pages
InitPagesMT ==
    /\ InitCache
    /\ max_size \in 1..MaxSize
    /\ now = 0
    /\ last = Called("init", None, None)
    /\ lru = [touched |-> <<>>, setorder |-> <<>>, read |-> {}]
    /\ setlog = [ks \in KeyStrings |-> <<>>]
    /\ th = [t \in Threads |-> Idle(None, "none")]
    /\ NoLimiter
    /\ pe = PerEndpointRateLimiter(OneToken)
    /\ client = WikiJSClient
    /\ \E server \in [PageIds -> Values \cup {None}] :
          pages = PagesEndpoint(TRUE, server)

NextPagesMT ==
    \/ \E t \in Threads, id \in PageIds : PmGetCached(t, id)
    \/ \E t \in Threads : PmGetPost(t)
    \/ \E t \in Threads : PmGetSet(t)
    \/ \E t \in Threads, id \in PageIds, content \in Mutations :
          PmMutatePost(t, id, content)
    \/ \E t \in Threads : PmInvalidate(t)

SpecPagesMT == InitPagesMT /\ [][NextPagesMT]_vars

\* every call has returned
AllReturned == \A t \in Threads : th[t].pc = "idle"

\* C30 as claimed: once every call has returned, an entry the cache holds
\* for a page carries the content the server holds for that page, so none
\* carries the content from before an update or a delete.
C30_AsClaimed ==
    AllReturned =>
        \A id \in PageIds :
            LET ks == to_string(PageKey(id)) IN
            Contains(cache, ks) =>
                /\ pages.server[id] # None
                /\ Lookup(cache, ks).value = Page(id, pages.server[id])

(***************************************************************************)
(* What a pages.get that fetched its page leaves in the cache, and what    *)
(* takes it away again.                                                    *)
(***************************************************************************)
\* the string "page:<id>:get"
PageKeyString(id) ==
    <<"p", "a", "g", "e", ":">> \o Str(id) \o <<":", "g", "e", "t">>

\* a call on the endpoint has just been made
PagesCalled == <<pages, cache, hits, misses>>' # <<pages, cache, hits, misses>>

\* C31: with a cache configured, a pages.get(id) that missed and whose
\* request succeeded leaves the page it returns under "page:<id>:get",
\* expiring at now + ttl; an entry of a page leaves the cache only in an
\* update or delete of that page, in a get of another page that evicts it
\* from a full cache, or in a get that finds it expired; and a pages.get(id)
\* that finds the entry before it has expired posts no request.  With no
\* cache configured every pages.get of a valid id posts one request.
C31_MissStoresPage ==
    [][PagesCalled =>
        LET r == pages'.last IN
        /\ (pages.cache /\ r.op = "get" /\ r.exc = "none" /\ r.posts = 1)
           => /\ Contains(cache', PageKeyString(r.id))
              /\ Lookup(cache', PageKeyString(r.id)).value = r.ret[1]
              /\ Lookup(cache', PageKeyString(r.id)).expires_at = now + ttl
              /\ r.calls = <<"get", "set">>
        /\ \A id \in PageIds :
              (Contains(cache, PageKeyString(id))
                  /\ ~Contains(cache', PageKeyString(id)))
              => \/ r.op \in {"update", "delete"} /\ r.id = id
                 \/ /\ r.op = "get" /\ r.id = id
                    /\ Expired(Lookup(cache, PageKeyString(id)), now)
                 \/ /\ r.op = "get" /\ r.id # id /\ r.posts = 1
                    /\ r.exc = "none"
                    /\ cache[1].key = PageKeyString(id)
        /\ (pages.cache /\ r.op = "get" /\ r.id >= 1
              /\ Contains(cache, PageKeyString(r.id))
              /\ ~Expired(Lookup(cache, PageKeyString(r.id)), now))
           => r.posts = 0 /\ r.ret = <<Lookup(cache, PageKeyString(r.id)).value>>
        /\ (~pages.cache /\ r.op = "get" /\ r.id >= 1)
           => r.posts = 1 /\ r.calls = <<>> /\ cache' = cache
      ]_vars

\* a get has been answered from the cache, later than the get that fetched
\* and stored the page, while no other page is stored
C31_Witness ==
    /\ pages.cache
    /\ pages.last.op = "get"
    /\ pages.last.posts = 0
    /\ pages.last.ret # <<>>
    /\ hits = 1
    /\ misses = 1
    /\ Len(cache) = 1
    /\ cache[1].key = PageKeyString(pages.last.id)
    /\ cache[1].value = pages.last.ret[1]
    /\ cache[1].created_at < now

\* with no cache configured, a get has posted a request and returned its
\* page, and the cache object nobody configured is empty
C31_WitnessNoCache ==
    /\ ~pages.cache
    /\ pages.last.op = "get"
    /\ pages.last.posts = 1
    /\ pages.last.exc = "none"
    /\ cache = <<>>

(***************************************************************************)
(* Threads that call acquire on a PerEndpointRateLimiter nobody has        *)
(* configured.  grants.n counts, per endpoint, the acquire calls that      *)
(* returned True without having slept.                                     *)
(***************************************************************************)
\* the default rates, in units per tick: 1 and 2 requests per second
PeDefaultRates == {OneToken \div TicksPerSecond, PeDefaultRate}

\* limiter.acquire, as in PeAttempt, with the call's success counted when
\* the call has not slept
PeAttemptCounted(t) ==
    LET c == pe.callers[t]
        r == pe.objs[c.lim]
        tokens == Refill(r, now)
        need == OneToken - tokens
    IN
    /\ c.pc = "attempt"
    /\ IF tokens >= OneToken
       THEN /\ pe' = Collect([pe EXCEPT
                        !.objs[c.lim] = [r EXCEPT !.tokens = tokens - OneToken,
                                                  !.last_update = now],
                        !.callers[t] = PeIdle("True", "none")])
            /\ grants' = IF c.need = 0
                         THEN [grants EXCEPT !.n[c.ep] = @ + 1] ELSE grants
       ELSE /\ pe' = Collect([pe EXCEPT
                        !.objs[c.lim] = [r EXCEPT !.tokens = tokens,
                                                  !.last_update = now],
                        !.callers[t] =
                           IF r.rate = 0
                           THEN PeIdle(None, "ZeroDivisionError")
                           ELSE IF /\ c.deadline # <<>>
                                   /\ now * r.rate + need > c.deadline[1] * r.rate
                           THEN PeIdle("False", "none")
                           ELSE [c EXCEPT !.pc = "sleep", !.need = need,
                                          !.since = now]])
            /\ UNCHANGED grants
    /\ UNCHANGED <<cacheVars, now, last, lru, setlog, th, rl, callers, pages,
                   client>>

InitPEFirst ==
    /\ InitCache
    /\ max_size = 1
    /\ now = 0
    /\ last = Called("init", None, None)
    /\ lru = [touched |-> <<>>, setorder |-> <<>>, read |-> {}]
    /\ setlog = [ks \in KeyStrings |-> <<>>]
    /\ th = [t \in Threads |-> Idle(None, "none")]
    /\ rl = RateLimiter(OneToken, <<>>, 0)
    /\ callers = [t \in Threads |-> RlIdle(None)]
    /\ grants = [at |-> 0, n |-> [ep \in Endpoints |-> 0], by |-> "acquire"]
    /\ \E rate \in PeDefaultRates : pe = PerEndpointRateLimiter(rate)
    /\ pages = PagesEndpoint(FALSE, [id \in PageIds |-> None])
    /\ client = WikiJSClient

NextPEFirst ==
    \/ \E t \in Threads :
          \/ PeAcquire(t)
          \/ PeAttemptCounted(t)
          \/ PeWake(t)
    \/ PeTick

SpecPEFirst == InitPEFirst /\ [][NextPEFirst]_vars

\* C32: of the acquire calls made on an endpoint that had no limiter, one
\* creates the RateLimiter and stores it, and every call draws from that
\* one: there are as many RateLimiters as endpoints with a limiter, every
\* caller inside acquire holds the limiter stored for its endpoint, and,
\* while less than a token's worth of time has passed, the calls on an
\* endpoint that returned True without sleeping are at most its limiter's
\* burst.
C32_OneLimiterPerEndpoint ==
    /\ Len(pe.objs) = Cardinality({ ep \in Endpoints : pe.limiters[ep] # <<>> })
    /\ \A ep \in Endpoints :
          pe.limiters[ep] # <<>> => pe.limiters[ep][1] \in 1..Len(pe.objs)
    /\ \A a, b \in Endpoints :
          (a # b /\ pe.limiters[a] # <<>>) => pe.limiters[a] # pe.limiters[b]
    /\ \A t \in Threads :
          pe.callers[t].pc # "idle"
          => pe.limiters[pe.callers[t].ep] = <<pe.callers[t].lim>>
    /\ \A ep \in Endpoints :
          IF pe.limiters[ep] = <<>> THEN grants.n[ep] = 0
          ELSE LET r == pe.objs[pe.limiters[ep][1]] IN
               r.rate * now < OneToken => grants.n[ep] <= r.burst

\* both threads called acquire on the same endpoint, whose limiter has a
\* burst of 1: one returned True at once, the other is asleep
C32_Witness ==
    \E t, u \in Threads, ep \in Endpoints :
       /\ t # u
       /\ pe.callers[t].pc = "idle"
       /\ pe.callers[t].ret = "True"
       /\ pe.callers[u].pc = "sleep"
       /\ pe.callers[u].ep = ep
       /\ grants.n[ep] = 1
       /\ pe.objs[pe.limiters[ep][1]].burst = 1
       /\ Len(pe.objs) = 1

(***************************************************************************)
(* One caller of a RateLimiter of burst 1, and nobody else.  With one      *)
(* thread the lock is always free, so the statements under the lock are    *)
(* one step; the clock may advance between any two steps and during a      *)
(* sleep, also beyond the time the sleep was asked to take.  th[Single]    *)
(* keeps the history of the caller's current or last call: tmp the         *)
(* deadline, value whether at entry the bucket held less than a token and  *)
(* the wait for one was at most the timeout, dirty whether time has passed *)
(* between two statements of the call or a sleep has ended late, todo the  *)
(* sleeps made and cur the time of the return.                             *)
(***************************************************************************)
\* the rates, in units per tick: 5 and 10 requests per second
OcRates == {OneToken \div 2, OneToken}

\* the timeouts, in ticks: 100 ms, 200 ms and 300 ms
OcTimeouts == {SleepCap, 2 * SleepCap, 3 * SleepCap}

\* the clock stops here
OcMaxTime == 5 * SleepCap

\* acquire(timeout) is entered: deadline = time.time() + timeout
OcAcquire ==
    /\ callers[Single].pc = "idle"
    /\ \E timeout \in OcTimeouts :
          /\ callers' = [callers EXCEPT ![Single] =
                [RlIdle(None) EXCEPT !.pc = "refill",
                                     !.timeout = <<timeout>>,
                                     !.deadline = <<now + timeout>>]]
          /\ th' = [th EXCEPT
                ![Single].tmp = now + timeout,
                ![Single].value =
                   IF /\ Refill(rl, now) < OneToken
                      /\ OneToken - Refill(rl, now) <= timeout * rl.rate
                   THEN "True" ELSE "False",
                ![Single].dirty = FALSE,
                ![Single].todo = <<>>,
                ![Single].cur = <<>>]
    /\ UNCHANGED <<cacheVars, now, last, lru, setlog, rl, grants, pe, pages,
                   client>>

\* acquire, under the lock: the refill, and a token taken or wait_time
\* computed (kept as its numerator, need)
OcRefill ==
    LET tokens == Refill(rl, now) IN
    /\ callers[Single].pc = "refill"
    /\ IF tokens >= OneToken
       THEN /\ rl' = [rl EXCEPT !.tokens = tokens - OneToken,
                                !.last_update = now]
            /\ callers' = [callers EXCEPT ![Single] = RlIdle("True")]
            /\ th' = [th EXCEPT ![Single].cur = <<now>>]
       ELSE /\ rl' = [rl EXCEPT !.tokens = tokens, !.last_update = now]
            /\ callers' = [callers EXCEPT ![Single].pc = "timeout",
                                          ![Single].need = OneToken - tokens]
            /\ UNCHANGED th
    /\ UNCHANGED <<cacheVars, now, last, lru, setlog, grants, pe, pages, client>>

\* a plausible slip: the call sleeps for the whole wait_time
OcTimeoutSleepsWait ==
    LET c == callers[Single] IN
    /\ c.pc = "timeout"
    /\ IF now * rl.rate + c.need > c.deadline[1] * rl.rate
       THEN /\ callers' = [callers EXCEPT ![Single] = RlIdle("False")]
            /\ th' = [th EXCEPT ![Single].cur = <<now>>]
       ELSE /\ callers' = [callers EXCEPT ![Single].pc = "sleep",
                                          ![Single].since = now]
            /\ th' = [th EXCEPT ![Single].todo = Append(@, c.need)]
    /\ UNCHANGED <<cacheVars, now, last, lru, setlog, rl, grants, pe, pages,
                   client>>

\* acquire: if deadline and time.time() + wait_time > deadline: return
\* False; else time.sleep(min(wait_time, 0.1)) starts; need becomes the
\* numerator of the time asked for
OcTimeout ==
    LET c == callers[Single] IN
    /\ c.pc = "timeout"
    /\ IF now * rl.rate + c.need > c.deadline[1] * rl.rate
       THEN /\ callers' = [callers EXCEPT ![Single] = RlIdle("False")]
            /\ th' = [th EXCEPT ![Single].cur = <<now>>]
       ELSE /\ callers' = [callers EXCEPT
                             ![Single].pc = "sleep",
                             ![Single].need = Min(c.need, SleepCap * rl.rate),
                             ![Single].since = now]
            /\ th' = [th EXCEPT
                        ![Single].todo =
                           Append(@, Min(c.need, SleepCap * rl.rate))]
    /\ UNCHANGED <<cacheVars, now, last, lru, setlog, rl, grants, pe, pages,
                   client>>

\* the sleep of the caller has lasted the time asked for
SleepDue ==
    (now - callers[Single].since) * rl.rate >= callers[Single].need

\* acquire: time.sleep returns, and the loop goes round
OcWake ==
    /\ callers[Single].pc = "sleep"
    /\ SleepDue
    /\ callers' = [callers EXCEPT ![Single].pc = "refill"]
    /\ UNCHANGED <<cacheVars, now, last, lru, setlog, th, rl, grants, pe, pages,
                   client>>

\* time passes: between two statements of the call, during its sleep, or
\* between two calls
OcTick ==
    /\ now < OcMaxTime
    /\ now' = now + 1
    /\ th' = [th EXCEPT ![Single].dirty =
                \/ @
                \/ callers[Single].pc \in {"refill", "timeout"}
                \/ callers[Single].pc = "sleep" /\ SleepDue]
    /\ UNCHANGED <<cacheVars, last, lru, setlog, rl, callers, grants, pe, pages,
                   client>>

InitOneCaller ==
    /\ InitCache
    /\ max_size = 1
    /\ now = 0
    /\ last = Called("init", None, None)
    /\ lru = [touched |-> <<>>, setorder |-> <<>>, read |-> {}]
    /\ setlog = [ks \in KeyStrings |-> <<>>]
    /\ th = [t \in Threads |-> Idle(None, "none")]
    /\ \E rate \in OcRates : rl = RateLimiter(rate, <<1>>, 0)
    /\ callers = [t \in Threads |-> RlIdle(None)]
    /\ grants = [at |-> 0, n |-> 0, by |-> "refill"]
    /\ NoEndpoints

NextOneCaller ==
    \/ OcAcquire
    \/ OcRefill
    \/ OcTimeout
    \/ OcWake
    \/ OcTick

SpecOneCaller == InitOneCaller /\ [][NextOneCaller]_vars

\* the caller's call was entered on a bucket short of a token whose wait
\* was at most the timeout
WaitWithinTimeout == th[Single].value = "True"

ShRates == {OneToken \div 2, OneToken}

ShBursts == {<<1>>, <<MaxBurst>>}

\* a plausible slip: the refill does not record when it ran
ShRefillKeepsLastUpdate(t) ==
    /\ callers[t].pc = "refill"
    /\ rl' = [rl EXCEPT !.tokens = Refill(rl, now)]
    /\ callers' = [callers EXCEPT ![t].pc = "check", ![t].since = now]
    /\ UNCHANGED grants
    /\ UNCHANGED <<notLimiter, now>>

\* acquire: now = time.time(); the refill; self._last_update = now
ShRefill(t) ==
    /\ callers[t].pc = "refill"
    /\ rl' = [rl EXCEPT !.tokens = Refill(rl, now), !.last_update = now]
    /\ callers' = [callers EXCEPT ![t].pc = "check", ![t].since = now]
    /\ UNCHANGED grants
    /\ UNCHANGED <<notLimiter, now>>

\* acquire: if self._tokens >= 1.0, take a token and return True; else
\* compute wait_time, kept as its numerator
ShCheck(t) ==
    /\ callers[t].pc = "check"
    /\ IF rl.tokens >= OneToken
       THEN /\ rl' = [rl EXCEPT !.tokens = @ - OneToken, !.lock = 0]
            /\ callers' = [callers EXCEPT ![t] = RlIdle("True")]
            /\ grants' = [grants EXCEPT !.n[now] = @ + 1,
                                        !.at[callers[t].since] = @ + 1]
       ELSE /\ rl' = [rl EXCEPT !.lock = 0]
            /\ callers' = [callers EXCEPT ![t] =
                  IF rl.rate = 0
                  THEN [RlIdle(None) EXCEPT !.exc = "ZeroDivisionError"]
                  ELSE [@ EXCEPT !.pc = "timeout",
                                 !.need = OneToken - rl.tokens,
                                 !.since = now]]
            /\ UNCHANGED grants
    /\ UNCHANGED <<notLimiter, now>>

\* the clock of this specification stops at ShMaxTime
ShMaxTime == 2 * SleepCap

\* time passes
ShTick ==
    /\ now < ShMaxTime
    /\ now' = now + 1
    /\ UNCHANGED rlVars
    /\ UNCHANGED notLimiter

InitShared ==
    /\ InitCache
    /\ max_size = 1
    /\ now = 0
    /\ last = Called("init", None, None)
    /\ lru = [touched |-> <<>>, setorder |-> <<>>, read |-> {}]
    /\ setlog = [ks \in KeyStrings |-> <<>>]
    /\ th = [t \in Threads |-> Idle(None, "none")]
    /\ \E rate \in ShRates, burst \in ShBursts : rl = RateLimiter(rate, burst, 0)
    /\ callers = [t \in Threads |-> RlIdle(None)]
    /\ grants = [at |-> [i \in 0..ShMaxTime |-> 0],
                 n |-> [i \in 0..ShMaxTime |-> 0], by |-> "acquire"]
    /\ NoEndpoints

NextShared ==
    \/ \E t \in Threads :
          \/ RlAcquire(t)
          \/ RlLock(t)
          \/ ShRefill(t)
          \/ ShCheck(t)
          \/ RlTimeout(t)
          \/ RlWake(t)
    \/ ShTick

SpecShared == InitShared /\ [][NextShared]_vars

\* the calls counted by f at the times a..b
RECURSIVE GrantedIn(_, _, _)
GrantedIn(f, a, b) == IF a > b THEN 0 ELSE f[a] + GrantedIn(f, a + 1, b)

\* over every interval of times a..b, the calls counted by f are at most
\* burst + extra + rate * (b - a)
WithinRate(f, extra) ==
    \A a \in 0..now, b \in 0..now :
       a <= b =>
          GrantedIn(f, a, b) * OneToken
             <= (rl.burst + extra) * OneToken + rl.rate * (b - a)

\* C34 as stated: over every interval of times a..b the acquire calls that
\* returned True in it are at most burst + rate * (b - a).
C34_AsClaimed == WithinRate(grants.n, 0)

\* C34: for one RateLimiter shared by threads that only call acquire, no
\* token is granted twice: over every interval of times a..b, the calls that
\* returned True and read the clock in it are at most burst + rate * (b - a),
\* and the calls that returned True in it are at most one more than that
\* (the first of them may have read the clock before the interval).
C34_GrantsWithinRate ==
    /\ WithinRate(grants.at, 0)
    /\ WithinRate(grants.n, 1)

\* both threads have been granted a token, the later one a token earned
\* after the burst was spent, and over the whole run as many calls returned
\* True as the burst and the elapsed time allow
C34_Witness ==
    /\ now > 0
    /\ \A t \in Threads : callers[t].pc = "idle" /\ callers[t].ret = "True"
    /\ grants.at[0] = rl.burst
    /\ grants.at[now] > 0
    /\ grants.n = grants.at
    /\ GrantedIn(grants.at, 0, now) * OneToken
          = rl.burst * OneToken + rl.rate * now

(***************************************************************************)
(* The registry lock of the PerEndpointRateLimiter.  A thread is inside    *)
(* 'with self._lock' of acquire while its pc is "registry" and inside that *)
(* of set_limit while its pc is "set_registry"; acquire leaves the block   *)
(* before it calls limiter.acquire(timeout), whose steps are PeAttempt and *)
(* PeWake.                                                                 *)
(***************************************************************************)
\* a plausible slip: 'return limiter.acquire(timeout)' is inside the with
\* block, and the lock is kept while the limiter is waited for
RegistryLockedWhileDelegating ==
    \E t \in Threads :
       pe.callers[t].pc \in {"registry", "set_registry", "attempt", "sleep"}

\* self._lock is held: a thread is inside one of the two with blocks
RegistryLocked ==
    \E t \in Threads : pe.callers[t].pc \in {"registry", "set_registry"}

\* acquire(endpoint, timeout) is called
PlAcquire(t) ==
    /\ pe.callers[t].pc = "idle"
    /\ \E ep \in Endpoints, timeout \in PeTimeouts :
          pe' = [pe EXCEPT !.callers[t] =
                    [PeIdle(None, "none") EXCEPT
                       !.pc = "lock", !.ep = ep, !.timeout = timeout]]
    /\ UNCHANGED <<cacheVars, now, last, lru, setlog, th, rlVars, pages, client>>

\* the set_limit calls that have been made
SetLimitCalls ==
    pe.sets + Cardinality({t \in Threads :
                             pe.callers[t].pc \in {"set_lock", "set_registry"}})

\* the rates given to set_limit: those that make a limiter one can acquire
PlRates == {rate \in PeRates : rate > 0}

\* set_limit(endpoint, rate) is called
PlSetLimit(t) ==
    /\ pe.callers[t].pc = "idle"
    /\ SetLimitCalls < MaxSetLimits
    /\ \E ep \in Endpoints, rate \in PlRates :
          pe' = [pe EXCEPT !.callers[t] =
                    [PeIdle(None, "none") EXCEPT
                       !.pc = "set_lock", !.ep = ep, !.rate = rate]]
    /\ UNCHANGED <<cacheVars, now, last, lru, setlog, th, rlVars, pages, client>>

\* with self._lock, in acquire and in set_limit
PlLock(t) ==
    /\ pe.callers[t].pc \in {"lock", "set_lock"}
    /\ ~RegistryLocked
    /\ pe' = [pe EXCEPT !.callers[t].pc =
                 IF @ = "lock" THEN "registry" ELSE "set_registry"]
    /\ UNCHANGED <<cacheVars, now, last, lru, setlog, th, rlVars, pages, client>>

\* acquire, inside the lock: if endpoint not in self._limiters, store
\* RateLimiter(self.default_rate); limiter = self._limiters[endpoint]; the
\* lock is released and limiter.acquire(timeout) is entered: the deadline
PlLookup(t) ==
    LET c == pe.callers[t] IN
    /\ c.pc = "registry"
    /\ pe' = [pe EXCEPT
                !.objs = IF pe.limiters[c.ep] = <<>>
                         THEN Append(@, RateLimiter(pe.default_rate, <<>>, now))
                         ELSE @,
                !.limiters[c.ep] = IF @ = <<>> THEN <<Len(pe.objs) + 1>> ELSE @,
                !.callers[t] =
                   [c EXCEPT
                      !.pc = "attempt", !.lim = LimiterOf(c.ep),
                      !.deadline = IF c.timeout # <<>> /\ c.timeout[1] # 0
                                   THEN <<now + c.timeout[1]>> ELSE <<>>]]
    /\ UNCHANGED <<cacheVars, now, last, lru, setlog, th, rlVars, pages, client>>

\* set_limit, inside the lock: self._limiters[endpoint] = RateLimiter(rate);
\* the lock is released and set_limit returns
PlStore(t) ==
    LET c == pe.callers[t] IN
    /\ c.pc = "set_registry"
    /\ pe' = Collect([SetLimit(c.ep, c.rate) EXCEPT
                        !.callers[t] = PeIdle(None, "none")])
    /\ UNCHANGED <<cacheVars, now, last, lru, setlog, th, rlVars, pages, client>>

NextPELock ==
    \/ \E t \in Threads :
          \/ PlAcquire(t)
          \/ PlSetLimit(t)
          \/ PlLock(t)
          \/ PlLookup(t)
          \/ PlStore(t)
          \/ PeAttempt(t)
          \/ PeWake(t)
    \/ PeTick

SpecPELock == InitPE /\ [][NextPELock]_vars

\* thread t is blocked inside limiter.acquire: it sleeps, or it is about to
\* try again after a sleep
Blocked(t) ==
    \/ pe.callers[t].pc = "sleep"
    \/ pe.callers[t].pc = "attempt" /\ pe.callers[t].need > 0

\* C35: the registry lock is not held while a thread is inside the acquire
\* of a limiter: while one thread is blocked there, sleeping or retrying,
\* every step of another thread's acquire and set_limit can be taken: the
\* lock can be entered, the limiter looked up or stored, and the attempt on
\* the limiter made; and these steps leave the blocked thread as it was.
C35_RegistryFreeWhileBlocked ==
    /\ [](\A t, u \in Threads :
            (t # u /\ Blocked(t)) =>
               /\ pe.callers[u].pc \in {"lock", "set_lock"} => ENABLED PlLock(u)
               /\ pe.callers[u].pc = "registry" => ENABLED PlLookup(u)
               /\ pe.callers[u].pc = "set_registry" => ENABLED PlStore(u)
               /\ pe.callers[u].pc = "attempt" => ENABLED PeAttempt(u))
    /\ [][\A t, u \in Threads :
            (t # u /\ Blocked(t) /\ pe'.callers[u] # pe.callers[u])
            => pe'.callers[t] = pe.callers[t]]_vars

\* one thread has slept since time 0 on an endpoint whose limiter it had
\* emptied; at time 1, while it still sleeps, the other thread's set_limit
\* on that endpoint has stored a new limiter and the other thread's acquire
\* on the other endpoint has passed the registry and is inside its limiter
C35_Witness ==
    \E t, u \in Threads, a, b \in Endpoints :
       /\ t # u
       /\ a # b
       /\ now = 1
       /\ pe.callers[t].pc = "sleep"
       /\ pe.callers[t].since = 0
       /\ pe.callers[t].ep = a
       /\ pe.sets = 1
       /\ pe.limiters[a] # <<pe.callers[t].lim>>
       /\ pe.objs[pe.limiters[a][1]].last_update = 1
       /\ pe.callers[u].pc = "attempt"
       /\ pe.callers[u].ep = b
       /\ pe.callers[u].deadline = <<1 + SleepCap>>

(***************************************************************************)
(* Calls of the pages endpoint that raise, under SpecPages.                *)
(***************************************************************************)
\* the step is a call of get, update or delete that raised
PagesRaised ==
    /\ PagesCalled
    /\ pages'.last.op \in {"get", "update", "delete"}
    /\ pages'.last.exc # "none"

\* the step stores no entry: every entry of the cache was there before
NothingAdded == \A j \in DOMAIN cache' : \E i \in DOMAIN cache : cache[i] = cache'[j]

\* the step removes no entry that has not expired
NothingLiveRemoved ==
    \A i \in DOMAIN cache :
       ~Expired(cache[i], now) => \E j \in DOMAIN cache' : cache'[j] = cache[i]

\* the call raised after its invalidate_resource call: the update whose
\* updatePage data Page(**normalized_data) rejects
RaisedOnParsing ==
    /\ pages'.last.op = "update"
    /\ pages'.last.exc = "APIError"
    /\ Len(pages'.last.calls) > 0

\* C36 as stated: a get, update or delete that raises adds no entry to the
\* cache and removes no entry that has not expired.
C36_AsClaimed ==
    [][PagesRaised => (NothingAdded /\ NothingLiveRemoved)]_vars

\* C36: a get, update or delete that raises adds no entry to the cache.  It
\* removes no entry that has not expired, and makes no call on the cache but
\* the get of pages.get, when it raises for an invalid page_id, GraphQL
\* errors, a page not found, no data returned or an unsuccessful deletion.
\* An update that the server has answered with data that cannot be parsed
\* raises after its invalidation: the entries of its page are gone, those
\* of other pages stay.
C36_RaisingCallsAndTheCache ==
    [][PagesRaised =>
         /\ NothingAdded
         /\ IF RaisedOnParsing
            THEN /\ pages.server[pages'.last.id] # None
                 /\ pages'.server[pages'.last.id] # None
                 /\ cache' = AfterInvalidate(cache, pages'.last.id)
            ELSE /\ NothingLiveRemoved
                 /\ IF pages'.last.op = "get"
                    THEN pages'.last.calls \in {<<>>, <<"get">>}
                    ELSE Len(pages'.last.calls) = 0]_vars

\* a delete has just raised APIError on GraphQL errors, for a page the
\* server has, with the cache holding an entry of that page that has not
\* expired; the entry is still there
C36_Witness ==
    /\ pages.cache
    /\ pages.last.op = "delete"
    /\ pages.last.exc = "APIError"
    /\ pages.last.posts = 1
    /\ pages.server[pages.last.id] # None
    /\ Contains(cache, to_string(PageKey(pages.last.id)))
    /\ ~Expired(Lookup(cache, to_string(PageKey(pages.last.id))), now)

(***************************************************************************)
(* A MemoryCache of any max_size, 0 included, called from one thread.  The *)
(* constructors store max_size as given.  set is modelled with             *)
(* popitem(last=False) raising KeyError on an OrderedDict that is empty;   *)
(* th[Single].exc is what the last set raised.                             *)
(***************************************************************************)
\* MemoryCache.set: the key's own entry is removed; if len(self._cache) >=
\* self.max_size the oldest entry is popped, which raises KeyError when
\* there is none; else the new entry is added at the end
SetOfAnySize(k, v) ==
    LET ks == to_string(k)
        c1 == IF Contains(cache, ks) THEN Del(cache, ks) ELSE cache
    IN
    /\ IF Len(c1) >= max_size /\ c1 = <<>>
       THEN /\ cache' = c1
            /\ th' = [th EXCEPT ![Single] = Idle(None, "KeyError")]
       ELSE /\ cache' = Append(EvictIfFull(c1), Entry(ks, v, now))
            /\ th' = [th EXCEPT ![Single] = Idle(None, "none")]
    /\ last' = Called("set", k, None)
    /\ UNCHANGED <<hits, misses, max_size, ttl, now>>
    /\ UNCHANGED <<lru, setlog, rl, callers, grants, pe, pages, client>>

\* MemoryCache(ttl, max_size) with max_size 0 or 1
InitAnySize ==
    /\ InitCache
    /\ max_size \in {0, 1}
    /\ now = 0
    /\ last = Called("init", None, None)
    /\ InitHistory

NextAnySize ==
    \/ \E k \in Keys : Get(k) /\ UNCHANGED history
    \/ \E k \in Keys, v \in Values : SetOfAnySize(k, v)
    \/ \E k \in Keys : Delete(k) /\ UNCHANGED history
    \/ Clear /\ UNCHANGED history
    \/ \E rt \in ResourceTypes, id \in MaybeIdentifiers :
          InvalidateResource(rt, id) /\ UNCHANGED history
    \/ CleanupExpired /\ UNCHANGED history
    \/ Tick /\ UNCHANGED history

SpecAnySize == InitAnySize /\ [][NextAnySize]_vars

\* the step is a call of set
SetCalled == last'.op = "set" /\ <<cache, last, th>>' # <<cache, last, th>>

\* C37: on a MemoryCache constructed with max_size = 0, set completes
\* without raising, and the cache never holds more than max_size entries.
C37_SetOnSizeZero ==
    /\ [](max_size = 0 => Len(cache) <= max_size)
    /\ [][(max_size = 0 /\ SetCalled) => th'[Single].exc = "none"]_vars

\* what does hold with max_size = 0: the cache stays empty, and every set
\* raises KeyError
C37_SetRaisesOnSizeZero ==
    /\ [](max_size = 0 => cache = <<>>)
    /\ [][(max_size = 0 /\ SetCalled) => th'[Single].exc = "KeyError"]_vars

=============================================================================
